---------------------------- MODULE Spec2Model ----------------------------
(***************************************************************************)
(* Model of the pattern similarity search of stock-pattern-matcher:        *)
(*   stock_pattern_matcher/pattern_matcher.py  CandlePatternMatcher,       *)
(*                                             calculate_statistics        *)
(*   src/pattern_matcher_gpu.py                PatternMatcher              *)
(*                                                                         *)
(* Floats are fixed-point integers with Scale units per 1.0; NaN and the   *)
(* two infinities are reserved values outside the range of every finite    *)
(* result.  A normalized column is kept exactly, as integer numerators     *)
(* over one denominator per column, and is rounded only when a score is    *)
(* produced.  A timestamp is the position of the bar in the series.        *)
(***************************************************************************)
EXTENDS Integers, Sequences, FiniteSets, TLC

\* ------------------------------------------------------------------ bounds
MaxLen == 5
MaxWindow == 2
MaxLookahead == 2
MaxTopN == 2
MaxSymbols == 2

\* ------------------------------------------------------- float arithmetic
Scale == 10 * 10
NaN == 1000 * 1000 + 7
PosInf == 1000 * 1000
NegInf == 0 - PosInf
\* Python's None where a float is expected.
None == NaN + 1

IsNum(x) == x # NaN /\ x # PosInf /\ x # NegInf
Abs(x) == IF x < 0 THEN 0 - x ELSE x
Min2(a, b) == IF a <= b THEN a ELSE b
Max2(a, b) == IF a >= b THEN a ELSE b
Sign(x) == IF x > 0 THEN 1 ELSE IF x < 0 THEN 0 - 1 ELSE 0

\* IEEE comparison a >= b: false as soon as one side is NaN.
FGe(a, b) == a # NaN /\ b # NaN /\ a >= b
FGt(a, b) == a # NaN /\ b # NaN /\ a > b

\* Integer division rounding toward zero, as a fixed-point quotient.
TDiv(a, b) == Sign(a) * Sign(b) * (Abs(a) \div Abs(b))

\* IEEE quotient of the integers a / b in fixed point: x/0 is +-inf, 0/0 NaN.
FQuot(a, b, scale) ==
    IF b = 0 THEN (IF a = 0 THEN NaN ELSE IF a > 0 THEN PosInf ELSE NegInf)
    ELSE TDiv(a * scale, b)

\* Largest k with k*k <= v, for 0 <= v, by bisection of lo..hi.
RECURSIVE SqrtIn(_, _, _)
SqrtIn(v, lo, hi) ==
    IF lo >= hi THEN lo
    ELSE LET mid == (lo + hi + 1) \div 2
         IN IF mid * mid <= v THEN SqrtIn(v, mid, hi) ELSE SqrtIn(v, lo, mid - 1)

ISqrt(v) == SqrtIn(v, 0, Min2(v, 40000))

RECURSIVE SumSeq(_)
SumSeq(s) == IF s = <<>> THEN 0 ELSE Head(s) + SumSeq(Tail(s))

Column(w, f) == [k \in 1..Len(w) |-> w[k][f]]
SeqMin(s) == CHOOSE x \in {s[k] : k \in 1..Len(s)} : \A j \in 1..Len(s) : x <= s[j]
SeqMax(s) == CHOOSE x \in {s[k] : k \in 1..Len(s)} : \A j \in 1..Len(s) : x >= s[j]

\* ------------------------------------------------------------ pandas iloc
\* A Python slice bound k on a sequence of length n.
PyBound(n, k) == IF k < 0 THEN Max2(0, n + k) ELSE Min2(k, n)

\* s.iloc[a:b] with 0-based, end-exclusive, Python-style bounds.
ILoc(s, a, b) ==
    LET lo == PyBound(Len(s), a)
        hi == PyBound(Len(s), b)
    IN IF hi <= lo THEN <<>> ELSE SubSeq(s, lo + 1, hi)


\* ------------------------------------------------------------------ bars
Fields == {"open", "high", "low", "close"}

\* A normalized column: the values num[k] / den, kept exactly.
NormCol(den, num) == [den |-> den, num |-> num]

\* CandlePatternMatcher.normalize_window with base_close = None.  The
\* result carries the *_norm columns; an empty window raises at iloc[-1].
normalize_window(window) ==
    IF Len(window) = 0 THEN [status |-> "IndexError"]
    ELSE LET base_close == window[Len(window)].close
             base_volume == window[Len(window)].volume
             price(f) == NormCol(base_close,
                                 [k \in 1..Len(window) |-> window[k][f] - base_close])
         IN [status |-> "ok", kind |-> "norm", n |-> Len(window),
             open |-> price("open"), high |-> price("high"),
             low |-> price("low"), close |-> price("close"),
             volume |-> IF base_volume > 0
                        THEN NormCol(base_volume,
                                     [k \in 1..Len(window) |-> window[k].volume - base_volume])
                        ELSE NormCol(1, [k \in 1..Len(window) |-> 0])]

\* One column of min_max_normalize: (v - min) / (max - min), or 0.5 at every
\* bar when the column is constant.  On an empty column min and max are NaN,
\* NaN != NaN holds and the quotient is an empty column.
MinMaxCol(col) ==
    IF Len(col) = 0 THEN NormCol(1, <<>>)
    ELSE LET min_val == SeqMin(col)
             max_val == SeqMax(col)
         IN IF max_val # min_val
            THEN NormCol(max_val - min_val, [k \in 1..Len(col) |-> col[k] - min_val])
            ELSE NormCol(2, [k \in 1..Len(col) |-> 1])

\* CandlePatternMatcher.min_max_normalize: the *_minmax columns.
min_max_normalize(window) ==
    [status |-> "ok", kind |-> "minmax", n |-> Len(window),
     open |-> MinMaxCol(Column(window, "open")),
     high |-> MinMaxCol(Column(window, "high")),
     low |-> MinMaxCol(Column(window, "low")),
     close |-> MinMaxCol(Column(window, "close")),
     volume |-> MinMaxCol(Column(window, "volume"))]

\* The dispatch of find_similar_patterns on normalize_method: everything
\* that is not 'relative' falls to min_max_normalize.
Normalize(window, normalize_method) ==
    IF normalize_method = "relative" THEN normalize_window(window)
    ELSE min_max_normalize(window)

\* ------------------------------------------------------------- similarity
\* scipy.stats.pearsonr raises ValueError on fewer than two points.
PearsonRaises(x, y) == Len(x.num) < 2

\* scipy.stats.pearsonr on two columns of equal length >= 2.  A column over
\* a zero denominator holds inf/nan and a constant column has no variance:
\* both give nan.  Two points give exactly +-1.  Otherwise
\* r = N / sqrt(Dx * Dy), invariant under the (positive) denominators.
pearsonr(x, y) ==
    LET n == Len(x.num)
        sx == SumSeq(x.num)
        sy == SumSeq(y.num)
        sxy == SumSeq([k \in 1..n |-> x.num[k] * y.num[k]])
        sxx == SumSeq([k \in 1..n |-> x.num[k] * x.num[k]])
        syy == SumSeq([k \in 1..n |-> y.num[k] * y.num[k]])
        N == (n * sxy - sx * sy) * Sign(x.den) * Sign(y.den)
        Dx == n * sxx - sx * sx
        Dy == n * syy - sy * sy
    IN IF x.den = 0 \/ y.den = 0 THEN NaN
       ELSE IF Dx = 0 \/ Dy = 0 THEN NaN
       ELSE IF n = 2 THEN Sign(N) * Scale
       ELSE Sign(N) * ISqrt((N * N * Scale * Scale) \div (Dx * Dy))

\* The default weights of the 'weighted' method, in hundredths, in the
\* iteration order of the dict.
WeightOrder == <<"close", "open", "high", "low">>
Weight(f) == CASE f = "close" -> 50 [] f = "open" -> 20 [] OTHER -> 15

\* Whether a field contributes to the weighted score: the *_norm column
\* exists on both sides, pearsonr does not raise and its value is not NaN.
WeightedUsable(a, b, f) ==
    /\ a.kind = "norm" /\ b.kind = "norm"
    /\ ~PearsonRaises(a[f], b[f])
    /\ pearsonr(a[f], b[f]) # NaN

\* A weighted score that divides by the sum of all four weights.
WeightedOverAllWeights(total_similarity, total_weight) == TDiv(total_similarity, 100)

\* Line 184: the sum of the weighted correlations over the weight of the
\* fields that contributed, 0.0 when none did.
WeightedAverage(total_similarity, total_weight) ==
    IF total_weight > 0 THEN TDiv(total_similarity, total_weight) ELSE 0

\* sqrt(mean((a - b) ** 2)) of two *_minmax columns; NaN on empty columns.
RmsDistance(x, y) ==
    LET n == Len(x.num)
        sq == SumSeq([k \in 1..n |->
                 (x.num[k] * y.den - y.num[k] * x.den) * (x.num[k] * y.den - y.num[k] * x.den)])
    IN IF n = 0 THEN NaN
       ELSE ISqrt((sq * Scale * Scale) \div (n * x.den * x.den * y.den * y.den))

\* Lines 156-202 of calculate_pattern_similarity, weights = None: the score
\* of two normalized windows of equal length.
ScoreEqualLength(target_norm, comparison_norm, method) ==
    IF method = "correlation" THEN
        IF target_norm.kind # "norm" \/ comparison_norm.kind # "norm" THEN 0
        ELSE IF PearsonRaises(target_norm.close, comparison_norm.close) THEN 0
        ELSE LET corr == pearsonr(target_norm.close, comparison_norm.close)
             IN IF corr # NaN THEN corr ELSE 0
    ELSE IF method = "weighted" THEN
        LET used == {k \in 1..Len(WeightOrder) :
                        WeightedUsable(target_norm, comparison_norm, WeightOrder[k])}
            total_similarity ==
                SumSeq([k \in 1..Len(WeightOrder) |->
                    IF k \in used
                    THEN pearsonr(target_norm[WeightOrder[k]],
                                  comparison_norm[WeightOrder[k]]) * Weight(WeightOrder[k])
                    ELSE 0])
            total_weight ==
                SumSeq([k \in 1..Len(WeightOrder) |->
                    IF k \in used THEN Weight(WeightOrder[k]) ELSE 0])
        IN WeightedAverage(total_similarity, total_weight)
    ELSE IF method = "euclidean" THEN
        IF target_norm.kind # "minmax" \/ comparison_norm.kind # "minmax"
        THEN (Scale * Scale) \div (Scale + Scale)
        ELSE LET distances == [k \in 1..Len(WeightOrder) |->
                     RmsDistance(target_norm[WeightOrder[k]],
                                 comparison_norm[WeightOrder[k]])]
             IN IF \E k \in 1..Len(distances) : distances[k] = NaN THEN NaN
                ELSE (Scale * Scale) \div (Scale + SumSeq(distances) \div Len(distances))
    ELSE 0

\* The scorer with the length test of lines 145-146 applied only when the
\* target is the shorter window.  Past the test, windows of different
\* length: pearsonr raises and the except clauses give 0.0; 'euclidean'
\* finds no *_minmax column on relative windows and gives 1 / (1 + 1.0),
\* and has no value on min-max windows.
ScoreLengthTestOneSided(target_norm, comparison_norm, method) ==
    IF target_norm.n < comparison_norm.n THEN 0
    ELSE IF target_norm.n = comparison_norm.n
    THEN ScoreEqualLength(target_norm, comparison_norm, method)
    ELSE IF method = "euclidean"
    THEN (IF target_norm.kind = "minmax" THEN NaN
          ELSE (Scale * Scale) \div (Scale + Scale))
    ELSE 0

\* CandlePatternMatcher.calculate_pattern_similarity.
calculate_pattern_similarity(target_norm, comparison_norm, method) ==
    IF target_norm.n # comparison_norm.n THEN 0
    ELSE ScoreEqualLength(target_norm, comparison_norm, method)

\* -------------------------------------------------- find_similar_patterns
\* Lines 245-246: a negative target_end_index counts from the end.
ResolveTargetEnd(df, target_end_index) ==
    IF target_end_index < 0 THEN Len(df) + target_end_index ELSE target_end_index

\* Lines 248-249: the target window.
TargetWindow(df, p) ==
    LET target_end_index == ResolveTargetEnd(df, p.target_end_index)
        target_start == Max2(0, target_end_index - p.window_size + 1)
    IN ILoc(df, target_start, target_end_index + 1)

\* The end of the scan without the bars to exclude.
SearchEndIgnoringExclude(df, p) == Len(df) - p.lookahead

\* Line 262.
SearchEnd(df, p) == Len(df) - p.lookahead - p.exclude_recent_days

\* Line 266: the candidate ending at i overlaps the target window.
Overlaps(i, target_end_index, window_size) == Abs(i - target_end_index) < window_size

\* Line 271: the candidate window ending at i.
CompWindow(df, p, i) == ILoc(df, i - p.window_size + 1, i + 1)

\* Lines 286-288: the bars after the candidate window, at most lookahead.
FutureData(df, p, i) == ILoc(df, i + 1, Min2(i + p.lookahead + 1, Len(df)))

\* The test of line 290 weakened to the one of the numpy matcher.
FutureNonEmpty(future_data, lookahead) == Len(future_data) > 0

\* Line 290: only a full future window is scored and recorded.
FutureComplete(future_data, lookahead) == Len(future_data) = lookahead

\* The threshold test on the magnitude of the score.
ClearsThresholdAbs(similarity, min_similarity) == FGe(Abs(similarity), min_similarity)

\* The threshold test with the comparison turned around.
ClearsThresholdInverted(similarity, min_similarity) == FGe(min_similarity, similarity)

\* Line 284: the threshold test.
ClearsThreshold(similarity, min_similarity) == FGe(similarity, min_similarity)

\* A return reported as the plain quotient.
ReturnAsRatio(price, start_price) == FQuot(price - start_price, start_price, Scale)

\* Lines 294, 299, 300: (price - start_price) / start_price * 100.
PercentReturn(price, start_price) == FQuot(price - start_price, start_price, 100 * Scale)

\* Lines 292-311: the row recorded for the candidate ending at i.
ResultRow(comp_window, future_data, similarity) ==
    LET start_price == comp_window[Len(comp_window)].close
        end_price == future_data[Len(future_data)].close
        max_price == SeqMax(Column(future_data, "high"))
        min_price == SeqMin(Column(future_data, "low"))
    IN [start_date |-> comp_window[1].ts,
        end_date |-> comp_window[Len(comp_window)].ts,
        similarity |-> similarity,
        future_return |-> PercentReturn(end_price, start_price),
        max_return |-> PercentReturn(max_price, start_price),
        min_return |-> PercentReturn(min_price, start_price),
        pattern_data |-> comp_window,
        future_data |-> future_data]

\* Lines 264-311: the scan from candidate end index i on, with the rows
\* recorded so far.  An exception leaves the loop and the call.
RECURSIVE Scan(_, _, _, _, _)
Scan(df, p, target_norm, i, results) ==
    IF i >= SearchEnd(df, p) THEN [status |-> "ok", results |-> results]
    ELSE IF Overlaps(i, ResolveTargetEnd(df, p.target_end_index), p.window_size)
    THEN Scan(df, p, target_norm, i + 1, results)
    ELSE
        LET comp_window == CompWindow(df, p, i)
            comp_norm == Normalize(comp_window, p.normalize_method)
        IN IF comp_norm.status # "ok"
           THEN [status |-> comp_norm.status, results |-> <<>>]
           ELSE
             LET similarity ==
                     calculate_pattern_similarity(target_norm, comp_norm, p.method)
                 future_data == FutureData(df, p, i)
             IN IF ClearsThreshold(similarity, p.min_similarity)
                   /\ FutureComplete(future_data, p.lookahead)
                THEN IF Len(comp_window) = 0 \/ Len(future_data) = 0
                     THEN [status |-> "IndexError", results |-> <<>>]
                     ELSE Scan(df, p, target_norm, i + 1,
                               Append(results,
                                      ResultRow(comp_window, future_data, similarity)))
                ELSE Scan(df, p, target_norm, i + 1, results)

\* Lines 270-311 for the candidate ending at i: the exception that ends
\* the loop there, or "ok".
StepStatus(df, p, target_norm, i) ==
    LET comp_window == CompWindow(df, p, i)
        comp_norm == Normalize(comp_window, p.normalize_method)
        future_data == FutureData(df, p, i)
    IN IF comp_norm.status # "ok" THEN comp_norm.status
       ELSE IF /\ ClearsThreshold(
                      calculate_pattern_similarity(target_norm, comp_norm, p.method),
                      p.min_similarity)
               /\ FutureComplete(future_data, p.lookahead)
               /\ (Len(comp_window) = 0 \/ Len(future_data) = 0)
       THEN "IndexError"
       ELSE "ok"

\* Lines 264-271: the candidate end indices the loop evaluates, in the
\* order it evaluates them, up to the one that raises.
RECURSIVE Evaluated(_, _, _, _)
Evaluated(df, p, target_norm, i) ==
    IF i >= SearchEnd(df, p) THEN <<>>
    ELSE IF Overlaps(i, ResolveTargetEnd(df, p.target_end_index), p.window_size)
    THEN Evaluated(df, p, target_norm, i + 1)
    ELSE IF StepStatus(df, p, target_norm, i) # "ok" THEN <<i>>
    ELSE <<i>> \o Evaluated(df, p, target_norm, i + 1)

\* Lines 248-271: the indices a call evaluates; none when the target
\* window cannot be formed or normalized.
EvaluatedBy(df, p) ==
    LET target_window == TargetWindow(df, p)
        target_norm == Normalize(target_window, p.normalize_method)
    IN IF Len(target_window) < p.window_size \/ target_norm.status # "ok" THEN <<>>
       ELSE Evaluated(df, p, target_norm, p.window_size - 1)

\* The position sort_values(ascending=False) puts first among `left`: the
\* largest similarity; among equal similarities the earliest recorded row
\* under a stable sort kind, the latest under the other.
PickFirst(results, left, sort_kind) ==
    CHOOSE k \in left :
        \A j \in left :
            \/ results[k].similarity > results[j].similarity
            \/ /\ results[k].similarity = results[j].similarity
               /\ IF sort_kind = "stable" THEN k <= j ELSE k >= j

\* Line 319: results_df.sort_values('similarity', ascending=False).
RECURSIVE SortFrom(_, _, _)
SortFrom(results, left, sort_kind) ==
    IF left = {} THEN <<>>
    ELSE LET k == PickFirst(results, left, sort_kind)
         IN <<results[k]>> \o SortFrom(results, left \ {k}, sort_kind)

sort_values(results, sort_kind) == SortFrom(results, 1..Len(results), sort_kind)

\* The ranking without its truncation.
HeadAll(rows, n) == rows

\* DataFrame.head(n): the first n rows, or all but the last -n rows.
head(rows, n) ==
    IF n >= 0 THEN SubSeq(rows, 1, Min2(n, Len(rows)))
    ELSE SubSeq(rows, 1, Max2(0, Len(rows) + n))

\* Lines 313-326.
RankResults(results, top_n, sort_kind) ==
    IF results # <<>> THEN head(sort_values(results, sort_kind), top_n) ELSE <<>>

Raised(status) == [status |-> status, results |-> <<>>, target |-> <<>>]

\* CandlePatternMatcher.find_similar_patterns.
find_similar_patterns(df, p, sort_kind) ==
    LET target_window == TargetWindow(df, p)
        target_norm == Normalize(target_window, p.normalize_method)
    IN IF Len(target_window) < p.window_size THEN Raised("ValueError")
       ELSE IF target_norm.status # "ok" THEN Raised(target_norm.status)
       ELSE LET scan == Scan(df, p, target_norm, p.window_size - 1, <<>>)
            IN IF scan.status # "ok" THEN Raised(scan.status)
               ELSE [status |-> "ok",
                     results |-> RankResults(scan.results, p.top_n, sort_kind),
                     target |-> target_window]

\* The statistics with positive_rate left as a ratio.
StatisticsAsRatio(similar_patterns_df) ==
    LET returns == Column(similar_patterns_df, "future_return")
        n == Len(returns)
        positives == Cardinality({k \in 1..n : FGt(returns[k], 0)})
    IN [empty |-> FALSE,
        count |-> n,
        positive_rate |-> FQuot(positives, n, Scale)]

\* Lines 348-360 of calculate_statistics: the record of statistics, of
\* which count and positive_rate are kept.  On no rows the quotient is 0/0.
StatisticsRecord(similar_patterns_df) ==
    LET returns == Column(similar_patterns_df, "future_return")
        n == Len(returns)
        positives == Cardinality({k \in 1..n : FGt(returns[k], 0)})
    IN [empty |-> FALSE,
        count |-> n,
        positive_rate |-> FQuot(positives, n, 100 * Scale)]

\* The statistics without the test for an empty frame.
StatisticsUnguarded(similar_patterns_df) == StatisticsRecord(similar_patterns_df)

\* calculate_statistics: the 'no data' marker {} on an empty frame (lines
\* 345-346), else the record.
calculate_statistics(similar_patterns_df) ==
    IF Len(similar_patterns_df) = 0 THEN [empty |-> TRUE]
    ELSE StatisticsRecord(similar_patterns_df)

\* ------------------------------------------------- PatternMatcher (numpy)
\* A pattern is the (n, 4) array of the open, high, low and close columns of
\* a window; a normalized pattern holds fixed-point values in Scale units.
PatternCols == <<"open", "high", "low", "close">>

Pattern(status, n, open, high, low, close) ==
    [status |-> status, n |-> n, open |-> open, high |-> high, low |-> low,
     close |-> close]

RECURSIVE SortAsc(_)
SortAsc(s) ==
    IF s = <<>> THEN <<>>
    ELSE LET m == SeqMin(s)
             k == CHOOSE j \in 1..Len(s) : s[j] = m
         IN <<m>> \o SortAsc([j \in 1..(Len(s) - 1) |-> IF j < k THEN s[j] ELSE s[j + 1]])

\* Line 75: (pattern - min) / (max - min + 1e-8).  The 1e-8 is below the
\* fixed-point resolution except on a constant column, where it makes the
\* quotient 0.
MinMaxEps(col) ==
    LET min_val == SeqMin(col)
        max_val == SeqMax(col)
    IN [k \in 1..Len(col) |->
           IF max_val = min_val THEN 0
           ELSE TDiv((col[k] - min_val) * Scale, max_val - min_val)]

\* Line 81: (pattern - mean) / (std + 1e-8), std the population deviation:
\* (n*p - sum) / sqrt(n*sumsq - sum^2), and 0 on a constant column.
ZScoreEps(col) ==
    LET n == Len(col)
        sum == SumSeq(col)
        v == n * SumSeq([k \in 1..n |-> col[k] * col[k]]) - sum * sum
    IN [k \in 1..n |->
           IF v = 0 THEN 0
           ELSE TDiv((n * col[k] - sum) * Scale * 10, ISqrt(v * 100))]

\* Four times the q-th quartile (q = 1 or 3) of a sorted column, by numpy's
\* linear interpolation at position (n - 1) * q / 4.
Quartile4(sorted, q) ==
    LET n == Len(sorted)
        lo == ((n - 1) * q) \div 4
        rem == ((n - 1) * q) % 4
    IN IF rem = 0 THEN 4 * sorted[lo + 1]
       ELSE 4 * sorted[lo + 1] + rem * (sorted[lo + 2] - sorted[lo + 1])

\* Lines 85-88: (pattern - median) / (iqr + 1e-8).  With a zero iqr the
\* quotient is 0 where the value is the median and beyond every finite
\* score elsewhere.
RobustEps(col) ==
    LET n == Len(col)
        sorted == SortAsc(col)
        median2 == sorted[(n + 1) \div 2] + sorted[(n + 2) \div 2]
        iqr4 == Quartile4(sorted, 3) - Quartile4(sorted, 1)
    IN [k \in 1..n |->
           IF iqr4 # 0 THEN TDiv((2 * col[k] - median2) * 2 * Scale, iqr4)
           ELSE IF 2 * col[k] = median2 THEN 0
           ELSE Sign(2 * col[k] - median2) * (PosInf - 1)]

\* PatternMatcher.normalize_pattern.  min() and percentile() of an empty
\* array raise; mean() of an empty array only warns; an unknown method
\* returns the pattern as it is.
normalize_pattern(window, normalize_method) ==
    LET n == Len(window)
        by(f(_)) == Pattern("ok", n, f(Column(window, "open")), f(Column(window, "high")),
                            f(Column(window, "low")), f(Column(window, "close")))
        Raw(col) == [k \in 1..Len(col) |-> col[k] * Scale]
    IN IF normalize_method = "minmax"
       THEN (IF n = 0 THEN [status |-> "ValueError"] ELSE by(MinMaxEps))
       ELSE IF normalize_method = "zscore" THEN by(ZScoreEps)
       ELSE IF normalize_method = "robust"
       THEN (IF n = 0 THEN [status |-> "IndexError"] ELSE by(RobustEps))
       ELSE by(Raw)

\* pattern.flatten(), with a pattern of one row repeated to `rows` rows.
Flatten(pattern, rows) ==
    [j \in 1..(4 * rows) |->
        pattern[PatternCols[((j - 1) % 4) + 1]]
               [IF pattern.n = 1 THEN 1 ELSE ((j - 1) \div 4) + 1]]

RECURSIVE Gcd(_, _)
Gcd(a, b) == IF b = 0 THEN Abs(a) ELSE Gcd(b, a % b)

RECURSIVE GcdSeq(_)
GcdSeq(s) == IF s = <<>> THEN 0 ELSE Gcd(Abs(Head(s)), GcdSeq(Tail(s)))

\* A sequence divided by the greatest common divisor of its entries: the
\* correlation is unchanged and the sums stay small.
Reduced(s) ==
    LET g == GcdSeq(s) IN IF g <= 1 THEN s ELSE [k \in 1..Len(s) |-> s[k] \div g]

\* np.corrcoef(x, y)[0, 1] of two flat arrays of equal length: NaN when an
\* array is empty or constant.
corrcoef(xs, ys) ==
    LET x == Reduced(xs)
        y == Reduced(ys)
        n == Len(x)
        sx == SumSeq(x)
        sy == SumSeq(y)
        N == n * SumSeq([k \in 1..n |-> x[k] * y[k]]) - sx * sy
        Dx == n * SumSeq([k \in 1..n |-> x[k] * x[k]]) - sx * sx
        Dy == n * SumSeq([k \in 1..n |-> y[k] * y[k]]) - sy * sy
    IN IF n = 0 \/ Dx = 0 \/ Dy = 0 THEN NaN
       ELSE IF Dx <= 40000 /\ Dy <= 40000 /\ Abs(N) <= 400
       THEN Sign(N) * ISqrt((N * N * Scale * Scale) \div (Dx * Dy))
       ELSE Sign(N) * Min2(Scale, (Abs(N) * Scale) \div (ISqrt(Dx) * ISqrt(Dy)))

\* numpy broadcasting of an (n1, 4) with an (n2, 4) array.
Broadcastable(n1, n2) == n1 = n2 \/ n1 = 1 \/ n2 = 1
BroadcastRows(n1, n2) == IF n1 = 1 THEN n2 ELSE n1

\* The squared differences pattern1 - pattern2, row by row.
SquaredDiffs(pattern1, pattern2) ==
    LET rows == BroadcastRows(pattern1.n, pattern2.n)
        a == Flatten(pattern1, rows)
        b == Flatten(pattern2, rows)
    IN [j \in 1..(4 * rows) |-> (a[j] - b[j]) * (a[j] - b[j])]

\* np.linspace(0.5, 1.0, n)[k - 1] in Scale units.
Linspace(n, k) ==
    IF n = 1 THEN Scale \div 2
    ELSE (Scale \div 2) + ((Scale \div 2) * (k - 1)) \div (n - 1)

\* PatternMatcher.calculate_similarity, the numpy branch (lines 129-144).
\* The result is [status, value]: arrays of shapes that do not fit raise.
calculate_similarity(pattern1, pattern2, method) ==
    IF method = "correlation" THEN
        IF pattern1.n # pattern2.n THEN [status |-> "ValueError", value |-> NaN]
        ELSE [status |-> "ok",
              value |-> corrcoef(Flatten(pattern1, pattern1.n),
                                 Flatten(pattern2, pattern2.n))]
    ELSE IF method = "euclidean" THEN
        IF ~Broadcastable(pattern1.n, pattern2.n)
        THEN [status |-> "ValueError", value |-> NaN]
        ELSE [status |-> "ok",
              value |-> (Scale * Scale) \div
                            (Scale + ISqrt(SumSeq(SquaredDiffs(pattern1, pattern2))))]
    ELSE IF method = "weighted" THEN
        IF ~Broadcastable(pattern1.n, pattern2.n)
        THEN [status |-> "ValueError", value |-> NaN]
        ELSE LET sq == SquaredDiffs(pattern1, pattern2)
                 weighted_diff ==
                     SumSeq([j \in 1..Len(sq) |->
                         (Linspace(pattern1.n,
                                   IF pattern1.n = 1 THEN 1 ELSE ((j - 1) \div 4) + 1)
                          * sq[j]) \div Scale]) \div Scale
             IN [status |-> "ok", value |-> (Scale * Scale) \div (Scale + weighted_diff)]
    ELSE [status |-> "ok", value |-> 0]

\* Lines 146-159, _correlation_gpu on two flat arrays of equal length:
\* numerator / (denominator + 1e-8).  The 1e-8 is below the fixed-point
\* resolution except where the denominator is 0 (an array is empty or
\* constant): there the numerator is 0 as well and the quotient is 0.
correlation_gpu(xs, ys) ==
    LET corr == corrcoef(xs, ys)
    IN IF corr = NaN THEN 0 ELSE corr

\* PatternMatcher.calculate_similarity, the accelerated branch (lines
\* 107-127): 'euclidean' and 'weighted' are the numpy expressions on device
\* arrays, 'correlation' goes through _correlation_gpu.
calculate_similarity_gpu(pattern1, pattern2, method) ==
    IF method = "correlation" THEN
        IF pattern1.n # pattern2.n THEN [status |-> "ValueError", value |-> NaN]
        ELSE [status |-> "ok",
              value |-> correlation_gpu(Flatten(pattern1, pattern1.n),
                                        Flatten(pattern2, pattern2.n))]
    ELSE calculate_similarity(pattern1, pattern2, method)

\* Line 107: the branch taken by self.use_gpu.
SimilarityOn(use_gpu, pattern1, pattern2, method) ==
    IF use_gpu THEN calculate_similarity_gpu(pattern1, pattern2, method)
    ELSE calculate_similarity(pattern1, pattern2, method)

\* data.iloc[k] with a scalar position: negative positions count from the
\* end, positions outside the frame raise IndexError.
InFrame(data, k) == 0 - Len(data) <= k /\ k < Len(data)
RowAt(data, k) == IF k < 0 THEN data[Len(data) + k + 1] ELSE data[k + 1]

\* Line 185: the number of window starts scanned.
MatchRange(data, cfg) == Len(data) - cfg.window_size - cfg.lookahead + 1

\* Lines 195-214: the row appended for the window starting at i.
MatchRow(data, cfg, i, similarity) ==
    LET future_data == ILoc(data, i + cfg.window_size,
                            i + cfg.window_size + cfg.lookahead)
        start_price == RowAt(data, i + cfg.window_size - 1).close
        end_price == future_data[Len(future_data)].close
    IN [similarity |-> similarity,
        start_date |-> RowAt(data, i).ts,
        end_date |-> RowAt(data, i + cfg.window_size - 1).ts,
        start_price |-> RowAt(data, i).close,
        end_price |-> start_price,
        future_return |-> IF Len(future_data) > 0
                          THEN FQuot(end_price - start_price, start_price, Scale)
                          ELSE None,
        match_index |-> i]

\* Lines 185-214: the scan from window start i on.
RECURSIVE MatchScan(_, _, _, _, _)
MatchScan(data, cfg, target_normalized, i, results) ==
    IF i >= MatchRange(data, cfg) THEN [status |-> "ok", results |-> results]
    ELSE
        LET window_normalized ==
                normalize_pattern(ILoc(data, i, i + cfg.window_size), cfg.normalize_method)
        IN IF window_normalized.status # "ok"
           THEN [status |-> window_normalized.status, results |-> <<>>]
           ELSE
             LET sim == calculate_similarity(target_normalized, window_normalized,
                                             cfg.method)
             IN IF sim.status # "ok" THEN [status |-> sim.status, results |-> <<>>]
                ELSE IF FGe(sim.value, cfg.min_similarity)
                THEN IF ~InFrame(data, i + cfg.window_size - 1) \/ ~InFrame(data, i)
                     THEN [status |-> "IndexError", results |-> <<>>]
                     ELSE MatchScan(data, cfg, target_normalized, i + 1,
                                    Append(results, MatchRow(data, cfg, i, sim.value)))
                ELSE MatchScan(data, cfg, target_normalized, i + 1, results)

\* Line 217: results.sort(key=similarity, reverse=True), a stable sort.
SortMatches(results) == SortFrom(results, 1..Len(results), "stable")

\* Line 219: results[:top_n].
SliceTo(rows, n) == ILoc(rows, 0, n)

\* PatternMatcher.find_similar_patterns(data, target_pattern).
match_similar_patterns(data, target_pattern, cfg) ==
    LET target_normalized == normalize_pattern(target_pattern, cfg.normalize_method)
    IN IF target_normalized.status # "ok"
       THEN [status |-> target_normalized.status, results |-> <<>>]
       ELSE LET scan == MatchScan(data, cfg, target_normalized, 0, <<>>)
            IN IF scan.status # "ok" THEN [status |-> scan.status, results |-> <<>>]
               ELSE [status |-> "ok",
                     results |-> SliceTo(SortMatches(scan.results), cfg.top_n)]

\* Line 248 of analyze_all_symbols: the latest window_size bars as target.
LatestPattern(data, window_size) == ILoc(data, 0 - window_size, Len(data))

\* Lines 205-214: the row of a match with its 'symbol' key.
WithSymbol(row, symbol) ==
    [symbol |-> symbol, similarity |-> row.similarity, start_date |-> row.start_date,
     end_date |-> row.end_date, start_price |-> row.start_price,
     end_price |-> row.end_price, future_return |-> row.future_return,
     match_index |-> row.match_index]

\* Lines 248-251: the search of one symbol's frame with its latest window
\* as target.  On a frame whose index holds no dates, index[i].strftime
\* (line 208) raises at the first window that clears the threshold.
FindForSymbol(frame, symbol, cfg) ==
    LET target_pattern == LatestPattern(frame.data, cfg.window_size)
        target_normalized == normalize_pattern(target_pattern, cfg.normalize_method)
        out == match_similar_patterns(frame.data, target_pattern, cfg)
    IN IF out.status # "ok" THEN out
       ELSE IF ~frame.dated
               /\ MatchScan(frame.data, cfg, target_normalized, 0, <<>>).results # <<>>
       THEN [status |-> "AttributeError", results |-> <<>>]
       ELSE [status |-> "ok",
             results |-> [k \in 1..Len(out.results) |-> WithSymbol(out.results[k], symbol)]]

\* Line 244: a frame too short for one window and its future is skipped.
TooShort(frame, cfg) == Len(frame.data) < cfg.window_size + cfg.lookahead

\* An exception handler that gives up what was collected.
ResultsLostOnError(all_results) == <<>>

\* Lines 260-262: the handler prints and continues; all_results is as it was.
ResultsAfterError(all_results) == all_results

\* Lines 252-262: the rows of a search that returned are appended, then the
\* progress callback runs; an exception of either is handled by continuing.
CollectResults(all_results, out, callback) ==
    IF out.status # "ok" THEN ResultsAfterError(all_results)
    ELSE IF callback = "raises"
    THEN ResultsAfterError(all_results \o out.results)
    ELSE all_results \o out.results

\* Lines 241-262: one iteration of the loop of analyze_all_symbols, the
\* try block and its handler: all_results after the symbol at position idx.
AfterSymbol(all_results, frame, symbol, cfg, callback) ==
    IF TooShort(frame, cfg) THEN all_results
    ELSE CollectResults(all_results, FindForSymbol(frame, symbol, cfg), callback)

\* Lines 264-271: the frame returned, sorted by similarity.
AnalysisFrame(all_results, sort_kind) ==
    IF all_results # <<>> THEN sort_values(all_results, sort_kind) ELSE <<>>

\* ------------------------------------------------------------ data loader
\* A cell of the JSON data that is no number and no date.
Unparsable == NaN + 2
\* pandas' missing timestamp.
NaT == NaN + 3

\* Lines 128-135: pd.to_numeric(..., errors='coerce').
to_numeric(v) == IF v = Unparsable THEN NaN ELSE v

\* Line 139: pd.to_datetime(..., errors='coerce').
to_datetime(v) == IF v = Unparsable THEN NaT ELSE v

\* Lines 126-136: the frame built from the columns of the raw data.
RawFrame(symbol_data) ==
    [k \in 1..Len(symbol_data) |->
        [date |-> to_datetime(symbol_data[k].date),
         open |-> to_numeric(symbol_data[k].open),
         high |-> to_numeric(symbol_data[k].high),
         low |-> to_numeric(symbol_data[k].low),
         close |-> to_numeric(symbol_data[k].close),
         volume |-> to_numeric(symbol_data[k].volume)]]

\* Line 140: dropna(subset=['date']).
DropMissingDates(rows) == SelectSeq(rows, LAMBDA r : r.date # NaT)

\* Line 142: sort_index().  Rows of equal date keep their order under a
\* stable sort kind and come out reversed otherwise.
RECURSIVE SortIndexFrom(_, _, _)
SortIndexFrom(rows, left, kind) ==
    IF left = {} THEN <<>>
    ELSE LET first == {k \in left : \A j \in left : rows[k].date <= rows[j].date}
             k == IF kind = "stable"
                  THEN CHOOSE a \in first : \A b \in first : a <= b
                  ELSE CHOOSE a \in first : \A b \in first : a >= b
         IN <<rows[k]>> \o SortIndexFrom(rows, left \ {k}, kind)

sort_index(rows, kind) == SortIndexFrom(rows, 1..Len(rows), kind)

\* Line 145: dropna(subset=['open', 'high', 'low', 'close']).
DropMissingPrices(rows) ==
    SelectSeq(rows, LAMBDA r : r.open # NaN /\ r.high # NaN /\ r.low # NaN /\ r.close # NaN)

\* StockDataLoader._create_dataframe, lines 114-150.
create_dataframe(symbol_data, kind) ==
    DropMissingPrices(sort_index(DropMissingDates(RawFrame(symbol_data)), kind))

\* ------------------------------------------ stock_pattern_matcher.config
\* The settings kept: the keys the environment can override and one it
\* cannot.  Values are strings; "None" stands for None, Unset for a
\* variable that is not in the environment.
ConfigKeys == {"data_dir", "colab_drive_mount", "colab_module_path", "colab_data_path"}
EnvNames == {"DRIVE_MOUNT_POINT", "COLAB_MODULE_PATH", "COLAB_DATA_PATH"}
Unset == "<unset>"

\* Lines 21-52: DEFAULT_CONFIG.
DEFAULT_CONFIG ==
    [key \in ConfigKeys |->
        CASE key = "data_dir" -> "data"
          [] key = "colab_drive_mount" -> "/content/drive"
          [] OTHER -> "None"]

\* The values a variable of the environment can have: not in the
\* environment, the empty string, a path.
EnvValues == {Unset, "", "/env"}

\* Lines 79-88: the key each variable of the environment is stored under.
EnvKey(name) ==
    CASE name = "COLAB_MODULE_PATH" -> "colab_module_path"
      [] name = "COLAB_DATA_PATH" -> "colab_data_path"
      [] name = "DRIVE_MOUNT_POINT" -> "colab_drive_mount"

\* The JSON files a Config is constructed from: no file, a path without a
\* file, and a file that holds a value for some of the keys.
ConfigFiles == {"None", "missing.json", "config.json"}
NoFileConfig == [key \in {} |-> "/file"]
FileConfigs == UNION {[keys -> {"/file"}] : keys \in SUBSET ConfigKeys}

\* Line 64: `config_file and os.path.exists(config_file)`.
FileExists(config_file) == config_file = "config.json"

\* Line 74: dict.update.
Update(config, file_config) ==
    [key \in DOMAIN config \cup DOMAIN file_config |->
        IF key \in DOMAIN file_config THEN file_config[key] ELSE config[key]]

\* Lines 70-74: Config._load_from_file.
load_from_file(config, file_config) == Update(config, file_config)

\* Lines 79, 83, 87: `if os.getenv(NAME):` is false for a variable that is
\* not set and for one set to the empty string.
Truthy(value) == value # Unset /\ value # ""

\* A loader that leaves the environment aside.
EnvIgnored(config, env) == config

\* Lines 76-88: Config._load_from_env.
load_from_env(config, env) ==
    [key \in DOMAIN config |->
        IF \E name \in EnvNames : EnvKey(name) = key /\ Truthy(env[name])
        THEN env[CHOOSE name \in EnvNames : EnvKey(name) = key]
        ELSE config[key]]

\* Lines 54-68: Config.__init__, from a copy of DEFAULT_CONFIG.
NewSettings(defaults, config_file, file_config, env) ==
    load_from_env(IF FileExists(config_file)
                  THEN load_from_file(defaults, file_config)
                  ELSE defaults,
                  env)

\* ------------------------------------------------- utils/config.py
\* The YAML files of the run: the default settings.yaml and one other file
\* exist, a third path names no file.  The options read from a file carry
\* the name of the file they were read from.
DefaultPath == "settings.yaml"
ExistingFiles == {"settings.yaml", "a.yaml"}
ConfigPaths == {"None", "a.yaml", "missing.yaml"}
ConfigOptions == {"debug.mode", "gpu.enabled"}
SetValues == {"set"}

\* The number of Config instances a run constructs.
MaxConfigs == 3

\* Lines 20-24: config_path None stands for the default settings.yaml.
PathOf(config_path) ==
    IF config_path = "None" THEN DefaultPath ELSE config_path

\* Lines 27-35: Config._load_config, which raises FileNotFoundError for a
\* path that does not exist.
load_config(path) == [option \in ConfigOptions |-> path]

\* Lines 15-25: Config.__init__.
NewConfig(config_path) ==
    [config_path |-> PathOf(config_path),
     _config |-> load_config(PathOf(config_path))]

\* Line 152: a Config is constructed when there is none yet, or when the
\* caller passes a path.
Constructs(global, config_path) == global = 0 \/ config_path # "None"

\* ------------------------------------------- utils/github_manager.py
\* The calls of upload_report: with and without a token, with a file name
\* and with the default one built from the clock, with two reports.
Tokens == {"", "tok"}
Filenames == {"None", "a.html"}
HtmlContents == {"<x>", "<y>"}

\* What becomes of one request: the server handles it and answers as the
\* API describes, it handles it and answers with a body that lacks the
\* fields read from it, it answers 500, or requests raises before there is
\* a response (no connection, time-out).
Outcomes == {"served", "malformed", "error", "raises"}
NoResponse == 0

\* Lines 48-51: the path of the report in the repository.
FilePath(filename) ==
    IF filename = "None"
    THEN "reports/now_analysis_report.html"
    ELSE "reports/a.html"

\* The contents API: a PUT without sha creates a file and is refused with
\* 422 where the file exists.
CreateStatus(repo, path, outcome) ==
    CASE outcome = "raises" -> NoResponse
      [] outcome = "error" -> 500
      [] path \in DOMAIN repo -> 422
      [] OTHER -> 201

\* A GET of the file, which gives its sha.
GetStatus(repo, path, outcome) ==
    CASE outcome = "raises" -> NoResponse
      [] outcome = "error" -> 500
      [] path \in DOMAIN repo -> 200
      [] OTHER -> 404

\* A PUT with the sha of the file, which replaces it.
UpdateStatus(repo, path, outcome) ==
    CASE outcome = "raises" -> NoResponse
      [] outcome = "error" -> 500
      [] path \in DOMAIN repo -> 200
      [] OTHER -> 422

\* The repository with one file written.
WithFile(repo, path, content) ==
    [p \in DOMAIN repo \cup {path} |-> IF p = path THEN content ELSE repo[p]]

\* Lines 69-86: _update_existing_report, whose whole body is in a try
\* block that returns None for any exception.
update_existing_report(repo, file_path, html_content, get, update) ==
    IF GetStatus(repo, file_path, get) # 200 \/ get = "malformed"
    THEN [result |-> "None", repo |-> repo,
          requests |-> <<[method |-> "GET",
                          status |-> GetStatus(repo, file_path, get)]>>]
    ELSE [result |-> IF UpdateStatus(repo, file_path, update) = 200
                        /\ update = "served"
                     THEN file_path
                     ELSE "None",
          repo |-> IF UpdateStatus(repo, file_path, update) = 200
                   THEN WithFile(repo, file_path, html_content)
                   ELSE repo,
          requests |-> <<[method |-> "GET", status |-> 200],
                         [method |-> "PUT",
                          status |-> UpdateStatus(repo, file_path, update)]>>]

\* Line 64: `hasattr(response, 'status_code')` reads the local variable
\* response, which is not bound when requests.put of line 57 raised: the
\* handler raises UnboundLocalError in that case.
HandlerReadsResponse(put) == put # "raises"

\* Lines 43-67: upload_report.
upload_report(repo, token, filename, html_content, put, get, update) ==
    IF token = ""
    THEN [status |-> "returned", result |-> "None", token |-> token,
          filename |-> filename, repo |-> repo, requests |-> <<>>]
    ELSE IF CreateStatus(repo, FilePath(filename), put) = 201
    THEN [status |-> "returned",
          result |-> IF put = "served" THEN FilePath(filename) ELSE "None",
          token |-> token, filename |-> filename,
          repo |-> WithFile(repo, FilePath(filename), html_content),
          requests |-> <<[method |-> "PUT", status |-> 201]>>]
    ELSE IF ~HandlerReadsResponse(put)
    THEN [status |-> "raised", result |-> "UnboundLocalError",
          token |-> token, filename |-> filename, repo |-> repo,
          requests |-> <<[method |-> "PUT", status |-> NoResponse]>>]
    ELSE IF CreateStatus(repo, FilePath(filename), put) = 422
    THEN [status |-> "returned",
          result |-> update_existing_report(repo, FilePath(filename),
                         html_content, get, update).result,
          token |-> token, filename |-> filename,
          repo |-> update_existing_report(repo, FilePath(filename),
                       html_content, get, update).repo,
          requests |-> <<[method |-> "PUT", status |-> 422]>>
                       \o update_existing_report(repo, FilePath(filename),
                              html_content, get, update).requests]
    ELSE [status |-> "returned", result |-> "None", token |-> token,
          filename |-> filename, repo |-> repo,
          requests |-> <<[method |-> "PUT",
                          status |-> CreateStatus(repo, FilePath(filename),
                                                  put)]>>]

\* ---------------------------------------------------------------- inputs
\* The bars a series is built from: a falling and a rising candle.
Falling == [open |-> 2, high |-> 2, low |-> 1, close |-> 1, volume |-> 0]
Rising == [open |-> 1, high |-> 3, low |-> 1, close |-> 2, volume |-> 1]
BarSet == {Falling, Rising}

\* A series: bars in timestamp order, the timestamp being the position.
WithIndex(bars) ==
    [k \in 1..Len(bars) |->
        [ts |-> k - 1, open |-> bars[k].open, high |-> bars[k].high,
         low |-> bars[k].low, close |-> bars[k].close, volume |-> bars[k].volume]]

AllSeries == {WithIndex(b) : b \in UNION {[1..n -> BarSet] : n \in 0..MaxLen}}

\* Parameter values of find_similar_patterns, in and out of the documented
\* ranges.  DefaultTopN is the default of top_n; thresholds are in Scale
\* units: -1.0, -0.5, the default 0.6 and the unreachable 1.1.
DefaultTopN == 10
TargetEnds == (0 - (MaxLen + 1))..2
WindowSizes == 0..MaxWindow
Lookaheads == 1..MaxLookahead
TopNs == (0 - 1)..MaxTopN
Thresholds == {0 - Scale, 0 - (Scale \div 2), (6 * Scale) \div 10, (11 * Scale) \div 10}
Methods == {"correlation", "weighted", "euclidean", "cosine"}
NormalizeMethods == {"relative", "minmax", "zscore", "rank"}
ValidMethods == {"correlation", "weighted", "euclidean"}
ValidNormalizeMethods == {"relative", "minmax"}
ValidMatchNormalizeMethods == {"minmax", "zscore", "robust"}
Excludes == (0 - 1)..1

\* The scan geometry under the default scorer, every score admitted.
GeometryParams ==
    [target_end_index : TargetEnds, window_size : WindowSizes,
     lookahead : Lookaheads, top_n : {DefaultTopN}, min_similarity : {0 - Scale},
     method : {"correlation"}, normalize_method : {"relative"},
     exclude_recent_days : {0}]

\* The end of the scan range for the latest window.
HorizonParams ==
    [target_end_index : {0 - 1}, window_size : WindowSizes,
     lookahead : Lookaheads, top_n : {DefaultTopN}, min_similarity : {0 - Scale},
     method : {"correlation"}, normalize_method : {"relative"},
     exclude_recent_days : Excludes]

\* The ranking of the latest window's matches.
RankingParams ==
    [target_end_index : {0 - 1}, window_size : WindowSizes,
     lookahead : {1}, top_n : TopNs, min_similarity : Thresholds,
     method : {"correlation"}, normalize_method : {"relative"},
     exclude_recent_days : {0}]

\* The scorer and normalizer selection.
ScorerParams ==
    [target_end_index : {0 - 1}, window_size : WindowSizes,
     lookahead : {1}, top_n : {DefaultTopN}, min_similarity : {0 - Scale},
     method : Methods, normalize_method : NormalizeMethods,
     exclude_recent_days : {0}]

SearchParams == GeometryParams \cup HorizonParams \cup RankingParams \cup ScorerParams

\* Constructor arguments of PatternMatcher, in and out of the documented
\* ranges; use_gpu is off.  DefaultMatchTopN is the default of top_n.
DefaultMatchTopN == 15
MatchNormalizeMethods == {"minmax", "zscore", "robust", "rank"}

MatchGeometryConfigs ==
    [window_size : WindowSizes, lookahead : Lookaheads, top_n : {DefaultMatchTopN},
     min_similarity : {0 - Scale}, method : {"correlation"},
     normalize_method : {"minmax"}]

MatchRankingConfigs ==
    [window_size : WindowSizes, lookahead : {1}, top_n : TopNs,
     min_similarity : Thresholds, method : {"correlation"},
     normalize_method : {"minmax"}]

MatchScorerConfigs ==
    [window_size : WindowSizes, lookahead : {1}, top_n : {DefaultMatchTopN},
     min_similarity : {0 - Scale}, method : Methods,
     normalize_method : MatchNormalizeMethods]

\* percentile() of an empty window is left out: what it does depends on
\* the numpy version.
MatchConfigs ==
    {c \in MatchGeometryConfigs \cup MatchRankingConfigs \cup MatchScorerConfigs :
        c.normalize_method = "robust" => c.window_size >= 1}

\* The frames handed to analyze_all_symbols: an empty series, a series that
\* repeats one bar, and a series that alternates falling and rising bars,
\* the last with or without dates as index.
Alternating(n) == WithIndex([k \in 1..n |-> IF k % 2 = 1 THEN Falling ELSE Rising])
Repeating(n) == WithIndex([k \in 1..n |-> Falling])
SymbolSeries == {Alternating(0), Alternating(MaxLen), Repeating(MaxLen)}
SymbolFrames ==
    [data : SymbolSeries, dated : {TRUE}] \cup [data : {Alternating(MaxLen)}, dated : {FALSE}]
SymbolsData == UNION {[1..n -> SymbolFrames] : n \in 0..MaxSymbols}

AnalysisConfigs ==
    [window_size : WindowSizes, lookahead : Lookaheads, top_n : {DefaultMatchTopN},
     min_similarity : {0 - Scale}, method : {"correlation"},
     normalize_method : {"minmax"}]

\* Series over a wider choice of bars, for the normalizers and scorers: a
\* bar that differs from Falling in its close only, one that differs in its
\* high only, and a bar of a halted instrument, all of whose prices are 0.
CloseUp == [open |-> 2, high |-> 2, low |-> 1, close |-> 2, volume |-> 0]
HighUp == [open |-> 2, high |-> 3, low |-> 1, close |-> 1, volume |-> 0]
Halted == [open |-> 0, high |-> 0, low |-> 0, close |-> 0, volume |-> 0]
WideBarSet == {Falling, Rising, CloseUp, HighUp, Halted}
MaxWideLen == 3
WideSeries == {WithIndex(b) : b \in UNION {[1..n -> WideBarSet] : n \in 0..MaxWideLen}}

\* The series the searches are run on for their reported returns: falling,
\* rising and halted bars.
ReturnBarSet == {Falling, Rising, Halted}
ReturnSeries == {WithIndex(b) : b \in UNION {[1..n -> ReturnBarSet] : n \in 0..MaxWideLen}}

\* The raw rows of a symbol in a JSON file: sound rows on two dates, and
\* rows with a date or a close that cannot be parsed, with a volume that
\* cannot be parsed or is negative, and with the high below the low.
SoundRow(date) == [date |-> date, open |-> 1, high |-> 2, low |-> 1, close |-> 1, volume |-> 1]
RawRows ==
    {SoundRow(0), SoundRow(1),
     [SoundRow(0) EXCEPT !.date = Unparsable],
     [SoundRow(0) EXCEPT !.close = Unparsable],
     [SoundRow(0) EXCEPT !.volume = Unparsable],
     [SoundRow(0) EXCEPT !.volume = 0 - 1],
     [SoundRow(0) EXCEPT !.high = 1, !.low = 2, !.open = 2, !.close = 2]}
MaxRawLen == 2
RawData == UNION {[1..n -> RawRows] : n \in 0..MaxRawLen}

\* ----------------------------------------------------------------- state
VARIABLES
    df,         \* CandlePatternMatcher.df, the copy of the caller's series
    sort_kind,  \* whether the build's default sort kind keeps ties in order
    call,       \* the latest search of either matcher: parameters, outcome
    repeat,     \* the outcome of invoking it a second time
    stats,      \* calculate_statistics of the latest result
    score,      \* the latest calculate_pattern_similarity call on two windows
    caller_df,  \* the DataFrame the caller handed to CandlePatternMatcher
    norm,       \* the latest direct call of a normalizer on a window
    sim,        \* the latest PatternMatcher.calculate_similarity call
    analysis,   \* the run of PatternMatcher.analyze_all_symbols
    loaded,     \* the latest StockDataLoader._create_dataframe call
    global_config,  \* utils.config._global_config: 0 for None, or an instance
    configs,    \* the utils.config.Config instances created, by identity
    got,        \* the latest utils.config.get_config call
    environ,    \* os.environ, the variables stock_pattern_matcher.config reads
    default_config, \* stock_pattern_matcher.config.Config.DEFAULT_CONFIG
    settings,   \* the latest stock_pattern_matcher.config.Config constructed
    upload      \* the latest GitHubManager.upload_report call

matchers == <<df, sort_kind, call, repeat, stats, score, caller_df, norm, sim, analysis>>
services == <<loaded, global_config, configs, got, environ, default_config, settings, upload>>
vars == <<df, sort_kind, call, repeat, stats, score, caller_df, norm, sim, analysis,
          loaded, global_config, configs, got, environ, default_config, settings, upload>>

NoCall == [op |-> "none"]
NoOutcome == [status |-> "none"]
NoStats == [status |-> "none"]
NoScore == [status |-> "none"]
NoNorm == [status |-> "none"]
NoSim == [status |-> "none"]
NoAnalysis == [status |-> "none"]

\* Nothing is held from an earlier call.
Idle ==
    /\ call.op = "none"
    /\ score = NoScore
    /\ norm = NoNorm
    /\ sim = NoSim
    /\ analysis = NoAnalysis

NoLoad == [status |-> "none"]
NoGot == [status |-> "none"]
NoSettings == [status |-> "none"]
\* No report uploaded yet: the reports folder of the repository is empty.
NoUpload == [status |-> "none", repo |-> [path \in {} |-> ""]]

\* The modules around the matchers before any call: nothing loaded, no
\* global Config, an environment without the Colab variables, the class
\* attribute DEFAULT_CONFIG as written, nothing uploaded.
ServicesInit ==
    /\ loaded = NoLoad
    /\ global_config = 0
    /\ configs = <<>>
    /\ got = NoGot
    /\ environ = [name \in EnvNames |-> Unset]
    /\ default_config = DEFAULT_CONFIG
    /\ settings = NoSettings
    /\ upload = NoUpload

\* Line 27: the matcher keeps a copy of the caller's DataFrame.
CopyOf(series) == series

\* A search that trims the series it has scanned.
SeriesTrimmedBySearch(series) == ILoc(series, 0, Len(series) - 1)

\* find_similar_patterns reads self.df through iloc slices and normalizes
\* copies of them (lines 61, 95): the series is left as it was.
SeriesAfterSearch(series) == series

Init ==
    /\ caller_df \in AllSeries
    /\ df = CopyOf(caller_df)
    /\ sort_kind \in {"stable", "unstable"}
    /\ call = NoCall
    /\ repeat = NoOutcome
    /\ stats = NoStats
    /\ score = NoScore
    /\ norm = NoNorm
    /\ sim = NoSim
    /\ analysis = NoAnalysis
    /\ ServicesInit

\* One search on an idle matcher.
FindSimilarPatterns ==
    \E p \in SearchParams :
        /\ Idle
        /\ call' = [op |-> "find", p |-> p, out |-> find_similar_patterns(df, p, sort_kind)]
        /\ df' = SeriesAfterSearch(df)
        /\ repeat' = NoOutcome
        /\ stats' = NoStats
        /\ UNCHANGED <<sort_kind, score, caller_df, norm, sim, analysis>>
        /\ UNCHANGED services

\* PatternMatcher(**cfg).find_similar_patterns(df, target) with the latest
\* window as target, as analyze_all_symbols calls it.  The constructor
\* (lines 43-59) stores its arguments unchecked.
MatchSimilarPatterns ==
    \E cfg \in MatchConfigs :
        /\ Idle
        /\ call' = [op |-> "match", p |-> cfg,
                    out |-> match_similar_patterns(
                                df, LatestPattern(df, cfg.window_size), cfg)]
        /\ UNCHANGED <<df, sort_kind, repeat, stats, score, caller_df, norm, sim, analysis>>
        /\ UNCHANGED services

\* A second invocation with the parameters of the first.
RepeatSearch ==
    /\ call.op = "find"
    /\ repeat = NoOutcome
    /\ stats = NoStats
    /\ repeat' = find_similar_patterns(df, call.p, sort_kind)
    /\ df' = SeriesAfterSearch(df)
    /\ UNCHANGED <<sort_kind, call, stats, score, caller_df, norm, sim, analysis>>
    /\ UNCHANGED services

\* calculate_statistics(results_df) on the result of a call that returned.
CalculateStatistics ==
    /\ call.op = "find"
    /\ call.out.status = "ok"
    /\ repeat = NoOutcome
    /\ stats = NoStats
    /\ stats' = [status |-> "ok", value |-> calculate_statistics(call.out.results)]
    /\ UNCHANGED <<df, sort_kind, call, repeat, score, caller_df, norm, sim, analysis>>
    /\ UNCHANGED services

\* The lengths of the windows scored directly.
WindowLens(series) == 0..Min2(Len(series), MaxWindow + 1)

\* calculate_pattern_similarity on the normalizations of two windows of the
\* series, the first target_len bars and the last comparison_len bars.
ScoreWindows ==
    \E target_len \in WindowLens(df), comparison_len \in WindowLens(df),
       method \in Methods, normalize_method \in {"relative", "minmax"} :
        LET target_norm == Normalize(ILoc(df, 0, target_len), normalize_method)
            comparison_norm ==
                Normalize(ILoc(df, Len(df) - comparison_len, Len(df)), normalize_method)
        IN /\ Idle
           /\ target_norm.status = "ok"
           /\ comparison_norm.status = "ok"
           /\ score' = [status |-> "ok", target_len |-> target_len,
                        comparison_len |-> comparison_len, method |-> method,
                        normalize_method |-> normalize_method,
                        value |-> calculate_pattern_similarity(
                                      target_norm, comparison_norm, method)]
           /\ UNCHANGED <<df, sort_kind, call, repeat, stats, caller_df, norm, sim, analysis>>
           /\ UNCHANGED services

\* A normalizer that writes its columns into the window it was given.
WindowWithNormColumns(window) ==
    [k \in 1..Len(window) |->
        [ts |-> window[k].ts, open |-> window[k].open, high |-> window[k].high,
         low |-> window[k].low, close |-> window[k].close, volume |-> window[k].volume,
         close_norm |-> 0]]

\* Lines 61 and 95: the normalizers add their columns to a copy, so the
\* window passed in is as it was, also when line 65 raises.
WindowAfterNormalize(window) == window

\* The window is a slice of self.df; the columns go to the copy, not to it.
SeriesAfterNormalize(series) == series

\* normalize_window or min_max_normalize called on the first window_len
\* bars of the series.
NormalizeWindow ==
    \E window_len \in WindowLens(df), normalizer \in {"normalize_window", "min_max_normalize"} :
        LET window_df == ILoc(df, 0, window_len)
            normalized_df == IF normalizer = "normalize_window"
                             THEN normalize_window(window_df)
                             ELSE min_max_normalize(window_df)
        IN /\ Idle
           /\ norm' = [status |-> normalized_df.status, normalizer |-> normalizer,
                       passed |-> window_df,
                       window |-> WindowAfterNormalize(window_df),
                       result |-> normalized_df]
           /\ df' = SeriesAfterNormalize(df)
           /\ UNCHANGED <<sort_kind, call, repeat, stats, score, caller_df, sim, analysis>>
           /\ UNCHANGED services

\* PatternMatcher.normalize_pattern called on the first window_len bars of
\* the series.
NormalizePattern ==
    \E window_len \in WindowLens(df), normalize_method \in MatchNormalizeMethods :
        LET window_df == ILoc(df, 0, window_len)
            pattern == normalize_pattern(window_df, normalize_method)
        IN /\ Idle
           /\ normalize_method = "robust" => window_len >= 1
           /\ norm' = [status |-> pattern.status, normalizer |-> "normalize_pattern",
                       normalize_method |-> normalize_method,
                       passed |-> window_df, window |-> window_df, result |-> pattern]
           /\ UNCHANGED <<df, sort_kind, call, repeat, stats, score, caller_df, sim, analysis>>
           /\ UNCHANGED services

\* PatternMatcher.calculate_similarity on the normalized patterns of two
\* windows of the series, the first len1 bars and the last len2 bars.
CalculateSimilarity ==
    \E len1 \in WindowLens(df), len2 \in WindowLens(df), use_gpu \in BOOLEAN,
       method \in Methods, normalize_method \in MatchNormalizeMethods :
        LET pattern1 == normalize_pattern(ILoc(df, 0, len1), normalize_method)
            pattern2 == normalize_pattern(ILoc(df, Len(df) - len2, Len(df)),
                                          normalize_method)
        IN /\ Idle
           /\ normalize_method = "robust" => (len1 >= 1 /\ len2 >= 1)
           /\ pattern1.status = "ok"
           /\ pattern2.status = "ok"
           /\ \E out \in {SimilarityOn(use_gpu, pattern1, pattern2, method)} :
                  sim' = [status |-> out.status, use_gpu |-> use_gpu,
                          len1 |-> len1, len2 |-> len2, method |-> method,
                          normalize_method |-> normalize_method,
                          value |-> out.value]
           /\ UNCHANGED <<df, sort_kind, call, repeat, stats, score, caller_df, norm, analysis>>
           /\ UNCHANGED services

\* analyze_all_symbols(symbols_data, progress_callback) is entered:
\* lines 236-239.
StartAnalysis ==
    \E symbols_data \in SymbolsData, cfg \in AnalysisConfigs,
       callback \in {"none", "raises"} :
        /\ Idle
        /\ analysis' = [status |-> "running", cfg |-> cfg, callback |-> callback,
                        symbols_data |-> symbols_data, idx |-> 1,
                        all_results |-> <<>>, returned |-> <<>>]
        /\ UNCHANGED <<df, sort_kind, call, repeat, stats, score, caller_df, norm, sim>>
        /\ UNCHANGED services

\* One iteration of the loop over the symbols.
AnalyzeSymbol ==
    /\ analysis.status = "running"
    /\ analysis.idx <= Len(analysis.symbols_data)
    /\ analysis' = [analysis EXCEPT
                       !.idx = analysis.idx + 1,
                       !.all_results = AfterSymbol(analysis.all_results,
                                                   analysis.symbols_data[analysis.idx],
                                                   analysis.idx, analysis.cfg,
                                                   analysis.callback)]
    /\ UNCHANGED <<df, sort_kind, call, repeat, stats, score, caller_df, norm, sim>>
    /\ UNCHANGED services

\* The loop is over: the collected rows are sorted and returned.
FinishAnalysis ==
    /\ analysis.status = "running"
    /\ analysis.idx > Len(analysis.symbols_data)
    /\ analysis' = [analysis EXCEPT
                       !.status = "done",
                       !.returned = AnalysisFrame(analysis.all_results, sort_kind)]
    /\ UNCHANGED <<df, sort_kind, call, repeat, stats, score, caller_df, norm, sim>>
    /\ UNCHANGED services

\* The caller drops the result set; the matcher is ready for the next search.
DropResults ==
    /\ ~Idle
    /\ call' = NoCall
    /\ repeat' = NoOutcome
    /\ stats' = NoStats
    /\ score' = NoScore
    /\ norm' = NoNorm
    /\ sim' = NoSim
    /\ analysis' = NoAnalysis
    /\ UNCHANGED <<df, sort_kind, caller_df>>
    /\ UNCHANGED services

Next ==
    \/ FindSimilarPatterns
    \/ MatchSimilarPatterns
    \/ RepeatSearch
    \/ CalculateStatistics
    \/ ScoreWindows
    \/ NormalizeWindow
    \/ DropResults

Spec == Init /\ [][Next]_vars

\* StockDataLoader._create_dataframe on the raw data of one symbol.
CreateDataframe ==
    \E symbol_data \in RawData :
        /\ loaded = NoLoad
        /\ loaded' = [status |-> "ok", symbol_data |-> symbol_data,
                      df |-> create_dataframe(symbol_data, sort_kind)]
        /\ UNCHANGED matchers
        /\ UNCHANGED <<global_config, configs, got, environ, default_config, settings, upload>>

\* Lines 140-155: get_config(config_path).  The instances constructed so
\* far are numbered in the order of their construction; global_config is
\* the number of the one the module holds, 0 for None.  A constructor that
\* raises leaves the module as it was.
GetConfig ==
    \E config_path \in ConfigPaths :
        /\ IF Constructs(global_config, config_path)
           THEN IF PathOf(config_path) \in ExistingFiles
                THEN /\ Len(configs) < MaxConfigs
                     /\ configs' = Append(configs, NewConfig(config_path))
                     /\ global_config' = Len(configs) + 1
                     /\ got' = [status |-> "ok", config_path |-> config_path,
                                config |-> Len(configs) + 1]
                ELSE /\ got' = [status |-> "raised",
                                config_path |-> config_path,
                                error |-> "FileNotFoundError"]
                     /\ UNCHANGED <<global_config, configs>>
           ELSE /\ got' = [status |-> "ok", config_path |-> config_path,
                           config |-> global_config]
                /\ UNCHANGED <<global_config, configs>>
        /\ UNCHANGED matchers
        /\ UNCHANGED <<loaded, environ, default_config, settings, upload>>

\* Lines 66-82: Config.set on an instance some caller holds.
ConfigSet ==
    \E c \in 1..Len(configs), key \in ConfigOptions, value \in SetValues :
        /\ configs' = [configs EXCEPT ![c]._config[key] = value]
        /\ UNCHANGED matchers
        /\ UNCHANGED <<loaded, global_config, got, environ, default_config, settings, upload>>

\* Lines 84-86: Config.reload on an instance some caller holds.
ConfigReload ==
    \E c \in 1..Len(configs) :
        /\ configs' = [configs EXCEPT
                          ![c]._config = load_config(configs[c].config_path)]
        /\ UNCHANGED matchers
        /\ UNCHANGED <<loaded, global_config, got, environ, default_config, settings, upload>>

\* Lines 54-68: Config(config_file) of stock_pattern_matcher.config, with
\* the contents the file has at that moment.
ConstructSettings ==
    \E config_file \in ConfigFiles, contents \in FileConfigs :
        /\ contents = NoFileConfig \/ FileExists(config_file)
        /\ settings' = [status |-> "ok", config_file |-> config_file,
                        file_config |-> contents,
                        config |-> NewSettings(default_config, config_file,
                                               contents, environ)]
        /\ UNCHANGED matchers
        /\ UNCHANGED <<loaded, global_config, configs, got, environ, default_config, upload>>

\* Lines 43-67: GitHubManager(token, config).upload_report(html_content,
\* filename) against the repository as the calls before have left it.
UploadReport ==
    \E token \in Tokens, filename \in Filenames, html_content \in HtmlContents,
       put \in Outcomes, get \in Outcomes, update \in Outcomes :
        /\ upload' = upload_report(upload.repo, token, filename, html_content,
                                   put, get, update)
        /\ UNCHANGED matchers
        /\ UNCHANGED <<loaded, global_config, configs, got, environ, default_config, settings>>

\* The normalizers and scorers of both matchers applied to windows of the
\* series.
ScorerNext ==
    \/ ScoreWindows
    \/ NormalizeWindow
    \/ CalculateSimilarity
    \/ DropResults

ScorerSpec == Init /\ [][ScorerNext]_vars

\* The searches of both matchers alone.
SweepNext ==
    \/ FindSimilarPatterns
    \/ MatchSimilarPatterns
    \/ DropResults

SweepSpec == Init /\ [][SweepNext]_vars

\* The normalizers and scorers on series over the wider choice of bars.
WideInit ==
    /\ caller_df \in WideSeries
    /\ df = CopyOf(caller_df)
    /\ sort_kind \in {"stable", "unstable"}
    /\ call = NoCall
    /\ repeat = NoOutcome
    /\ stats = NoStats
    /\ score = NoScore
    /\ norm = NoNorm
    /\ sim = NoSim
    /\ analysis = NoAnalysis
    /\ ServicesInit

WideNext ==
    \/ ScoreWindows
    \/ NormalizeWindow
    \/ NormalizePattern
    \/ DropResults

WideSpec == WideInit /\ [][WideNext]_vars

\* The searches of both matchers on series that hold bars of price 0.
ReturnsInit ==
    /\ caller_df \in ReturnSeries
    /\ df = CopyOf(caller_df)
    /\ sort_kind \in {"stable", "unstable"}
    /\ call = NoCall
    /\ repeat = NoOutcome
    /\ stats = NoStats
    /\ score = NoScore
    /\ norm = NoNorm
    /\ sim = NoSim
    /\ analysis = NoAnalysis
    /\ ServicesInit

ReturnsSpec == ReturnsInit /\ [][SweepNext]_vars

\* PatternMatcher.analyze_all_symbols on its own: no CandlePatternMatcher
\* is constructed.
SymbolsInit ==
    /\ caller_df = <<>>
    /\ df = CopyOf(caller_df)
    /\ sort_kind \in {"stable", "unstable"}
    /\ call = NoCall
    /\ repeat = NoOutcome
    /\ stats = NoStats
    /\ score = NoScore
    /\ norm = NoNorm
    /\ sim = NoSim
    /\ analysis = NoAnalysis
    /\ ServicesInit

SymbolsNext ==
    \/ StartAnalysis
    \/ AnalyzeSymbol
    \/ FinishAnalysis
    \/ DropResults

SymbolsSpec == SymbolsInit /\ [][SymbolsNext]_vars

\* The data loader on its own, where no matcher has been constructed.
LoaderNext == CreateDataframe

LoaderSpec == SymbolsInit /\ [][LoaderNext]_vars

\* The module utils.config on its own.
ConfigNext ==
    \/ GetConfig
    \/ ConfigSet
    \/ ConfigReload

ConfigSpec == SymbolsInit /\ [][ConfigNext]_vars

\* stock_pattern_matcher.config on its own, in a process started with any
\* environment.
SettingsInit ==
    /\ caller_df = <<>>
    /\ df = CopyOf(caller_df)
    /\ sort_kind = "stable"
    /\ call = NoCall
    /\ repeat = NoOutcome
    /\ stats = NoStats
    /\ score = NoScore
    /\ norm = NoNorm
    /\ sim = NoSim
    /\ analysis = NoAnalysis
    /\ loaded = NoLoad
    /\ global_config = 0
    /\ configs = <<>>
    /\ got = NoGot
    /\ environ \in [EnvNames -> EnvValues]
    /\ default_config = DEFAULT_CONFIG
    /\ settings = NoSettings
    /\ upload = NoUpload

SettingsNext == ConstructSettings

SettingsSpec == SettingsInit /\ [][SettingsNext]_vars

\* utils.github_manager on its own.
UploadNext == UploadReport

UploadSpec == SymbolsInit /\ [][UploadNext]_vars

\* ---------------------------------------------------------------- claims
Searched == call.op = "find"
Returned == Searched /\ call.out.status = "ok"
Rows == call.out.results
RowSet == {Rows[k] : k \in 1..Len(Rows)}
Timestamps(window) == {window[k].ts : k \in 1..Len(window)}

\* The rows the scan of the latest call recorded, before ranking.
Recorded == Scan(df, call.p, Normalize(TargetWindow(df, call.p), call.p.normalize_method),
                 call.p.window_size - 1, <<>>).results

\* The score the scan gives the candidate ending at i.
ScoreAt(i) ==
    calculate_pattern_similarity(
        Normalize(TargetWindow(df, call.p), call.p.normalize_method),
        Normalize(CompWindow(df, call.p, i), call.p.normalize_method),
        call.p.method)

\* The parameters are in the documented ranges, the target index aside.
DocumentedRanges ==
    /\ call.p.window_size >= 1
    /\ call.p.lookahead >= 1
    /\ call.p.top_n >= 1
    /\ call.p.exclude_recent_days >= 0
    /\ call.p.method \in ValidMethods
    /\ call.p.normalize_method \in ValidNormalizeMethods

\* C1: every returned candidate ends at least window_size bars away from
\* the resolved target end index, that is, its window shares no bar with
\* the target window that is returned.
C1_NoOverlap ==
    (Returned /\ DocumentedRanges) =>
        \A r \in RowSet :
            /\ Abs(r.end_date - ResolveTargetEnd(df, call.p.target_end_index))
                   >= call.p.window_size
            /\ Timestamps(r.pattern_data) \cap Timestamps(call.out.target) = {}

\* C2: for lookahead >= 1 every row either matcher returns has a future
\* window of exactly lookahead bars, the bars that follow the candidate
\* inside the series; no row comes from a shorter trailing window.
C2_FullFutureWindow ==
    /\ (Returned /\ call.p.lookahead >= 1) =>
          \A r \in RowSet :
              /\ Len(r.future_data) = call.p.lookahead
              /\ Timestamps(r.future_data)
                     = (r.end_date + 1)..(r.end_date + call.p.lookahead)
              /\ r.end_date + call.p.lookahead <= Len(df) - 1
    /\ (call.op = "match" /\ call.out.status = "ok" /\ call.p.lookahead >= 1) =>
          \A k \in 1..Len(call.out.results) :
              /\ call.out.results[k].match_index + call.p.window_size + call.p.lookahead
                     <= Len(df)
              /\ call.out.results[k].future_return # None

C2_Witness ==
    /\ Returned
    /\ call.p.lookahead = 2
    /\ Rows # <<>>
    /\ \E i \in (call.p.window_size - 1)..(SearchEnd(df, call.p) - 1) :
          /\ ~Overlaps(i, ResolveTargetEnd(df, call.p.target_end_index), call.p.window_size)
          /\ FGe(ScoreAt(i), call.p.min_similarity)
          /\ Len(FutureData(df, call.p, i)) = 1

\* C3: for a positive window_size the call either raises the
\* insufficient-data error or returns as target exactly the window_size
\* bars ending at the resolved index, and it raises whenever the resolved
\* index has fewer than window_size bars at or before it or lies outside
\* 0..len-1.
C3_TargetWindowOrError ==
    (Searched /\ DocumentedRanges) =>
        LET t == ResolveTargetEnd(df, call.p.target_end_index)
            w == call.p.window_size
        IN /\ \/ call.out.status = "ValueError"
              \/ /\ call.out.status = "ok"
                 /\ Len(call.out.target) = w
                 /\ Timestamps(call.out.target) = (t - w + 1)..t
           /\ (t \notin 0..(Len(df) - 1) \/ t + 1 < w) => call.out.status = "ValueError"

\* C4: for top_n > 0 the result is ordered by similarity, non-increasing,
\* holds exactly min(top_n, Q) rows for Q recorded candidates, and no
\* recorded candidate left out scores higher than a returned row.
C4_TopNOrdered ==
    (Returned /\ call.p.top_n > 0) =>
        LET recorded == Recorded
            rows == RowSet
            left_out == {recorded[k] : k \in 1..Len(recorded)} \ rows
        IN /\ Len(Rows) = Min2(call.p.top_n, Len(recorded))
           /\ \A k \in 1..(Len(Rows) - 1) : Rows[k].similarity >= Rows[k + 1].similarity
           /\ \A r \in rows : \A c \in left_out : r.similarity >= c.similarity

C4_Witness ==
    /\ Returned
    /\ call.p.top_n > 0
    /\ Len(Recorded) > call.p.top_n
    /\ \E k \in 1..Len(Recorded) :
          Recorded[k] \notin RowSet /\ Recorded[k].similarity < Rows[1].similarity

\* C5: the threshold is a plain minimum.  Every returned row stands for a
\* candidate whose score is >= min_similarity, and every candidate in the
\* scanned range that does not overlap the target, has a full future
\* window and scores >= min_similarity is returned when top_n does not cut
\* the recorded rows, a negative score under a negative threshold included.
C5_PlainMinimum ==
    (Returned /\ call.p.window_size >= 1) =>
        LET scanned == (call.p.window_size - 1)..(SearchEnd(df, call.p) - 1)
            scores == {<<i, ScoreAt(i)>> : i \in scanned}
            score_at == [i \in scanned |-> (CHOOSE e \in scores : e[1] = i)[2]]
            ends == {Rows[k].end_date : k \in 1..Len(Rows)}
        IN /\ \A k \in 1..Len(Rows) :
                 /\ Rows[k].similarity >= call.p.min_similarity
                 /\ Rows[k].end_date \in scanned
                 /\ Rows[k].similarity = score_at[Rows[k].end_date]
           /\ Len(Rows) < call.p.top_n =>
                 \A i \in scanned :
                     ( /\ ~Overlaps(i, ResolveTargetEnd(df, call.p.target_end_index),
                                    call.p.window_size)
                       /\ FutureComplete(FutureData(df, call.p, i), call.p.lookahead)
                       /\ FGe(score_at[i], call.p.min_similarity) )
                     => i \in ends

C5_Witness ==
    /\ Returned
    /\ call.p.min_similarity < 0
    /\ \E r \in RowSet : r.similarity < 0
    /\ \E r \in RowSet : r.similarity > 0

\* The number of rows the latest search returns with min_similarity m, or
\* with top_n n, in place of its own; -1 when that call raises.
CountAtThreshold(m) ==
    LET out == IF call.op = "find"
               THEN find_similar_patterns(df, [call.p EXCEPT !.min_similarity = m], sort_kind)
               ELSE match_similar_patterns(df, LatestPattern(df, call.p.window_size),
                                           [call.p EXCEPT !.min_similarity = m])
    IN IF out.status = "ok" THEN Len(out.results) ELSE 0 - 1

CountAtTopN(n) ==
    LET out == IF call.op = "find"
               THEN find_similar_patterns(df, [call.p EXCEPT !.top_n = n], sort_kind)
               ELSE match_similar_patterns(df, LatestPattern(df, call.p.window_size),
                                           [call.p EXCEPT !.top_n = n])
    IN IF out.status = "ok" THEN Len(out.results) ELSE 0 - 1

\* C6: for the series and the other parameters of any search of either
\* matcher, a higher min_similarity never gives more rows, and a lower
\* top_n > 0 never gives more rows, nor more than top_n.
C6_Monotone ==
    (call.op \in {"find", "match"} /\ repeat = NoOutcome /\ stats = NoStats) =>
        LET by_threshold == {<<m, CountAtThreshold(m)>> : m \in Thresholds}
            by_top_n == {<<n, CountAtTopN(n)>> : n \in 1..(MaxTopN + 1)}
        IN /\ \A a, b \in by_threshold :
                 (a[1] <= b[1] /\ a[2] >= 0 /\ b[2] >= 0) => b[2] <= a[2]
           /\ \A a, b \in by_top_n :
                 (a[1] <= b[1] /\ a[2] >= 0 /\ b[2] >= 0)
                     => (a[2] <= b[2] /\ a[2] <= a[1])

C6_Witness ==
    /\ Returned
    /\ repeat = NoOutcome
    /\ stats = NoStats
    /\ call.p.top_n = DefaultTopN
    /\ CountAtThreshold(0 - Scale) > CountAtThreshold((6 * Scale) \div 10)
    /\ CountAtThreshold((6 * Scale) \div 10) > CountAtThreshold((11 * Scale) \div 10)
    /\ CountAtTopN(1) < CountAtTopN(2)

C8_EmptyResult ==
    /\ ( /\ Searched
         /\ call.p.window_size >= 1
         /\ call.p.min_similarity > Scale
         /\ Len(TargetWindow(df, call.p)) >= call.p.window_size )
       => ( /\ call.out.status = "ok"
            /\ call.out.results = <<>>
            /\ call.out.target = TargetWindow(df, call.p) )
    /\ (Returned /\ stats # NoStats /\ call.out.results = <<>>)
       => stats = [status |-> "ok", value |-> [empty |-> TRUE]]

C8_Witness ==
    /\ Returned
    /\ call.p.min_similarity > Scale
    /\ call.p.method = "correlation"
    /\ Len(df) = MaxLen
    /\ call.p.window_size = 2
    /\ stats # NoStats
    /\ \E i \in 1..(SearchEnd(df, call.p) - 1) : ScoreAt(i) = Scale

\* C10: calculate_pattern_similarity gives 0.0 for two normalized windows
\* of different length, under every method.
C10_LengthMismatchIsZero ==
    (score # NoScore /\ score.target_len # score.comparison_len) => score.value = 0

C10_Witness ==
    /\ score # NoScore
    /\ score.target_len > score.comparison_len
    /\ score.comparison_len > 0
    /\ score.method = "euclidean"
    /\ score.normalize_method = "relative"

\* C9: a search of either matcher whose method or normalize_method is
\* unknown, or whose window_size or top_n is not positive, ends with an
\* error and returns no result set.
C9_FailFast ==
    /\ ( /\ call.op = "find"
         /\ \/ call.p.method \notin ValidMethods
            \/ call.p.normalize_method \notin ValidNormalizeMethods
            \/ call.p.window_size <= 0
            \/ call.p.top_n <= 0 )
       => call.out.status # "ok"
    /\ ( /\ call.op = "match"
         /\ \/ call.p.method \notin ValidMethods
            \/ call.p.normalize_method \notin ValidMatchNormalizeMethods
            \/ call.p.window_size <= 0
            \/ call.p.top_n <= 0 )
       => call.out.status # "ok"

\* The number of returned rows with a positive future return.
PositiveRows == Cardinality({k \in 1..Len(Rows) : Rows[k].future_return > 0})

\* C16 as stated: on a non-empty result calculate_statistics gives count =
\* the number of matches and positive_rate = the fraction of matches with
\* a positive future return, a ratio in [0, 1].
C16_PositiveRateIsRatio ==
    (Returned /\ stats # NoStats /\ Rows # <<>>) =>
        /\ stats.value.empty = FALSE
        /\ stats.value.count = Len(Rows)
        /\ stats.value.positive_rate = (PositiveRows * Scale) \div Len(Rows)
        /\ stats.value.positive_rate \in 0..Scale

\* C16 amended: positive_rate is that fraction times 100, a percentage in
\* [0, 100], and is 100 exactly when every match has a positive future
\* return.
C16_PositiveRateIsPercentage ==
    (Returned /\ stats # NoStats /\ Rows # <<>>) =>
        /\ stats.value.empty = FALSE
        /\ stats.value.count = Len(Rows)
        /\ stats.value.positive_rate = (PositiveRows * 100 * Scale) \div Len(Rows)
        /\ stats.value.positive_rate \in 0..(100 * Scale)
        /\ stats.value.positive_rate = 100 * Scale <=> PositiveRows = Len(Rows)

C16_Witness ==
    /\ Returned
    /\ stats # NoStats
    /\ Len(Rows) = 2
    /\ PositiveRows = 1

\* C19: two returned rows of equal similarity appear with the earlier
\* start first, and a recorded candidate cut by top_n starts later than
\* every returned row of the same similarity.
C19_TiesEarliestFirst ==
    ( /\ Returned
      /\ DocumentedRanges
      /\ ResolveTargetEnd(df, call.p.target_end_index) \in 0..(Len(df) - 1) ) =>
        /\ \A j, k \in 1..Len(Rows) :
              (j < k /\ Rows[j].similarity = Rows[k].similarity)
                  => Rows[j].start_date < Rows[k].start_date
        /\ \A k \in 1..Len(Recorded) : \A r \in RowSet :
              (Recorded[k] \notin RowSet /\ Recorded[k].similarity = r.similarity)
                  => r.start_date < Recorded[k].start_date

\* The candidate end indices the latest search evaluated.
EvaluatedEnds == EvaluatedBy(df, call.p)

\* C20: for exclude_recent_days >= 0 every evaluated and every returned
\* candidate end i has window_size - 1 <= i < len - lookahead -
\* exclude_recent_days, so its window starts at an index >= 0; the indices
\* are evaluated in increasing order, each once, and a search that returns
\* has evaluated every index of the range that does not overlap the target.
C20_ScanRange ==
    (Searched /\ call.p.exclude_recent_days >= 0) =>
        LET ends == EvaluatedEnds
            lo == call.p.window_size - 1
            hi == Len(df) - call.p.lookahead - call.p.exclude_recent_days
            t == ResolveTargetEnd(df, call.p.target_end_index)
        IN /\ \A k \in 1..Len(ends) :
                 /\ lo <= ends[k] /\ ends[k] < hi
                 /\ ends[k] - call.p.window_size + 1 >= 0
           /\ \A k \in 1..(Len(ends) - 1) : ends[k] < ends[k + 1]
           /\ call.out.status = "ok" =>
                 /\ {ends[k] : k \in 1..Len(ends)}
                        = {i \in lo..(hi - 1) : Abs(i - t) >= call.p.window_size}
                 /\ \A r \in RowSet : \E k \in 1..Len(ends) : ends[k] = r.end_date

C20_Witness ==
    /\ Returned
    /\ call.p.exclude_recent_days = 1
    /\ call.p.window_size = 2
    /\ Len(EvaluatedEnds) >= 1
    /\ Len(Rows) >= 1
    /\ \E i \in (call.p.window_size - 1)..(Len(df) - call.p.lookahead - 1) :
          /\ Abs(i - ResolveTargetEnd(df, call.p.target_end_index)) >= call.p.window_size
          /\ \A k \in 1..Len(EvaluatedEnds) : EvaluatedEnds[k] # i

\* Every column of the window holds one value.
ConstantPrices(window) ==
    \A j, k \in 1..Len(window) :
        /\ window[j].open = window[k].open /\ window[j].high = window[k].high
        /\ window[j].low = window[k].low /\ window[j].close = window[k].close

\* C14: both normalizers fail on a window of length 0, and neither raises
\* on a non-empty window of constant prices.
C14_EmptyWindowFails ==
    norm # NoNorm =>
        /\ Len(norm.passed) = 0 => norm.status # "ok"
        /\ (Len(norm.passed) > 0 /\ ConstantPrices(norm.passed)) => norm.status = "ok"

SelfScored ==
    /\ score # NoScore
    /\ score.target_len = Len(df)
    /\ score.comparison_len = Len(df)

\* C11: on non-empty windows of equal length the scorer of
\* CandlePatternMatcher never returns NaN and gives 0.0 under 'correlation'
\* when the correlation of the closes is undefined, and the 'correlation'
\* method of PatternMatcher.calculate_similarity never returns NaN.
C11_NeverNaN ==
    /\ (score # NoScore /\ score.target_len = score.comparison_len
            /\ score.target_len >= 1)
       => /\ score.value # NaN
          /\ ( /\ score.method = "correlation"
               /\ score.normalize_method = "relative"
               /\ \A j, k \in 1..Len(df) : df[j].close = df[k].close )
             => score.value = 0
    /\ (sim # NoSim /\ sim.status = "ok" /\ sim.method = "correlation"
            /\ sim.len1 = sim.len2 /\ sim.len1 >= 1)
       => sim.value # NaN

\* C12: a window of two or more bars, here one whose closes are not all
\* equal, scored against itself under 'correlation' gives 1.0, whichever
\* accepted normalization is used.
C12_SelfCorrelationIsOne ==
    ( /\ SelfScored
      /\ Len(df) >= 2
      /\ \E j, k \in 1..Len(df) : df[j].close # df[k].close
      /\ score.method = "correlation"
      /\ score.normalize_method \in ValidNormalizeMethods )
    => score.value = Scale

\* C13: a window scored against itself under 'euclidean' gives 1.0,
\* whichever accepted normalization is used, and no pair of windows of
\* equal length scores higher.
C13_SelfEuclideanIsMax ==
    ( /\ score # NoScore
      /\ score.method = "euclidean"
      /\ score.normalize_method \in ValidNormalizeMethods
      /\ score.target_len = score.comparison_len
      /\ score.target_len >= 1 )
    => /\ score.value <= Scale
       /\ SelfScored => score.value = Scale

\* The rows of a sequence that carry the symbol.
RowsOf(rows, symbol) == SelectSeq(rows, LAMBDA r : r.symbol = symbol)

\* The rows find_similar_patterns produces for the symbol at position k.
Produced(k) ==
    LET out == FindForSymbol(analysis.symbols_data[k], k, analysis.cfg)
    IN IF TooShort(analysis.symbols_data[k], analysis.cfg) \/ out.status # "ok"
       THEN <<>> ELSE out.results

\* C17: at every point of analyze_all_symbols the rows collected for a
\* symbol are all the rows its search produced or none; a symbol already
\* passed whose search completed has all of them, whatever happened to the
\* symbols after it, a symbol not yet reached has none, and the frame
\* returned holds the collected rows.
C17_SymbolsAtomic ==
    analysis # NoAnalysis =>
        LET produced == {<<k, Produced(k)>> : k \in 1..Len(analysis.symbols_data)}
            returned == {analysis.returned[j] : j \in 1..Len(analysis.returned)}
        IN /\ \A e \in produced :
                 LET mine == RowsOf(analysis.all_results, e[1])
                 IN /\ mine = e[2] \/ mine = <<>>
                    /\ e[1] < analysis.idx => mine = e[2]
                    /\ e[1] >= analysis.idx => mine = <<>>
           /\ analysis.status = "done" =>
                 /\ analysis.idx = Len(analysis.symbols_data) + 1
                 /\ Len(analysis.returned) = Len(analysis.all_results)
                 /\ \A e \in produced :
                       {r \in returned : r.symbol = e[1]}
                           = {e[2][j] : j \in 1..Len(e[2])}

C17_Witness ==
    /\ analysis # NoAnalysis
    /\ analysis.status = "done"
    /\ Len(analysis.symbols_data) = 2
    /\ Produced(1) # <<>>
    /\ ~TooShort(analysis.symbols_data[2], analysis.cfg)
    /\ FindForSymbol(analysis.symbols_data[2], 2, analysis.cfg).status # "ok"
    /\ analysis.returned # <<>>

\* C18: for lookahead >= 1 no row analyze_all_symbols collects overlaps
\* the target, the last window_size bars of its symbol: the window ends at
\* or before len - 1 - window_size.
C18_NoOverlapWithLatest ==
    (analysis # NoAnalysis /\ analysis.cfg.window_size >= 1
        /\ analysis.cfg.lookahead >= 1) =>
        \A j \in 1..Len(analysis.all_results) :
            LET r == analysis.all_results[j]
                len == Len(analysis.symbols_data[r.symbol].data)
            IN r.match_index + analysis.cfg.window_size - 1
                   <= len - 1 - analysis.cfg.window_size

\* The two normalized windows of the latest direct scorer call.
ScoredTargetNorm == Normalize(ILoc(df, 0, score.target_len), score.normalize_method)
ScoredComparisonNorm ==
    Normalize(ILoc(df, Len(df) - score.comparison_len, Len(df)), score.normalize_method)

\* The correlation of one field's *_norm columns in that call, NaN when it
\* cannot be computed: the columns are missing, pearsonr raises or gives nan.
FieldCorr(f) ==
    IF ScoredTargetNorm.kind # "norm" \/ ScoredComparisonNorm.kind # "norm" THEN NaN
    ELSE IF Len(ScoredTargetNorm[f].num) < 2 THEN NaN
    ELSE pearsonr(ScoredTargetNorm[f], ScoredComparisonNorm[f])

ComputableFields == {f \in Fields : FieldCorr(f) # NaN}

\* C21: under 'weighted' the score of two windows of equal length is the
\* weighted sum of the computable fields' correlations over the weight of
\* those fields alone, 0.0 when no field is computable, and exactly the
\* field's correlation when a single field is computable.
C21_WeightedRenormalised ==
    (score # NoScore /\ score.method = "weighted"
        /\ score.target_len = score.comparison_len) =>
        LET corrs == {<<f, FieldCorr(f)>> : f \in Fields}
            usable == {e \in corrs : e[2] # NaN}
            part(f, v) == IF \E e \in usable : e[1] = f THEN v ELSE 0
            corr(f) == (CHOOSE e \in corrs : e[1] = f)[2]
            weighted == SumSeq([k \in 1..Len(WeightOrder) |->
                           part(WeightOrder[k], corr(WeightOrder[k]) * Weight(WeightOrder[k]))])
            weight == SumSeq([k \in 1..Len(WeightOrder) |->
                           part(WeightOrder[k], Weight(WeightOrder[k]))])
        IN /\ usable = {} => score.value = 0
           /\ usable # {} => score.value = TDiv(weighted, weight)
           /\ \A e \in usable : usable = {e} => score.value = e[2]

\* A call in which only the high column can be correlated, with the score
\* that column's correlation of 1.0.
C21_Witness ==
    /\ score # NoScore
    /\ score.method = "weighted"
    /\ score.target_len = score.comparison_len
    /\ ComputableFields = {"high"}
    /\ score.value = Scale

\* The latest direct normalizer call was a min-max normalization that
\* returned.
MinMaxNormalized ==
    /\ norm # NoNorm
    /\ norm.status = "ok"
    /\ \/ norm.normalizer = "min_max_normalize"
       \/ norm.normalizer = "normalize_pattern" /\ norm.normalize_method = "minmax"

\* The normalized values of one field in that call, in Scale units.
MinMaxValues(f) ==
    IF norm.normalizer = "min_max_normalize"
    THEN [k \in 1..Len(norm.result[f].num) |->
             TDiv(norm.result[f].num[k] * Scale, norm.result[f].den)]
    ELSE norm.result[f]

\* C22: min-max normalization gives 0.5 at every bar of a constant field;
\* a field that varies has its minimum at 0, its maximum at 1 and every
\* value in [0, 1], under min_max_normalize and under normalize_pattern
\* with 'minmax'.
C22_MinMaxRange ==
    MinMaxNormalized =>
        \A f \in Fields :
            LET col == Column(norm.passed, f)
                out == MinMaxValues(f)
                n == Len(col)
            IN /\ Len(out) = n
               /\ (n >= 1 /\ SeqMin(col) = SeqMax(col)) =>
                      \A k \in 1..n : 2 * out[k] = Scale
               /\ (n >= 1 /\ SeqMin(col) # SeqMax(col)) =>
                      \A k \in 1..n :
                          /\ 0 <= out[k] /\ out[k] <= Scale
                          /\ col[k] = SeqMin(col) => out[k] = 0
                          /\ col[k] = SeqMax(col) => out[k] = Scale

\* C23: normalize_window divides by no zero: a window whose last volume is
\* 0 has normalized volume 0 at every bar, and every normalized price is a
\* finite number, also when the last close is 0.
C23_RelativeFinite ==
    (norm # NoNorm /\ norm.normalizer = "normalize_window" /\ norm.status = "ok") =>
        LET last == norm.passed[Len(norm.passed)]
        IN /\ norm.result.volume.den # 0
           /\ last.volume = 0 =>
                  \A k \in 1..Len(norm.passed) : norm.result.volume.num[k] = 0
           /\ \A f \in Fields : norm.result[f].den # 0

\* The latest search of either matcher returned rows for windows of at
\* least one bar.
RowsReturned ==
    /\ call.op \in {"find", "match"}
    /\ call.out.status = "ok"
    /\ call.p.window_size >= 1

\* The position in the series of the last bar of a returned row's window,
\* its close, and the lookahead bars after it.
LastBarOf(r) ==
    IF call.op = "find" THEN r.end_date ELSE r.match_index + call.p.window_size - 1
BaseOf(r) == df[LastBarOf(r) + 1].close
FutureOf(r) == ILoc(df, LastBarOf(r) + 1, LastBarOf(r) + 1 + call.p.lookahead)

\* The three returns of a row at a given scale: the last future close, the
\* highest future high and the lowest future low against the base.
ReturnsAt(r, scale) ==
    LET future == FutureOf(r)
    IN [future_return |-> FQuot(future[Len(future)].close - BaseOf(r), BaseOf(r), scale),
        max_return |-> FQuot(SeqMax(Column(future, "high")) - BaseOf(r), BaseOf(r), scale),
        min_return |-> FQuot(SeqMin(Column(future, "low")) - BaseOf(r), BaseOf(r), scale)]

SimPattern1 == normalize_pattern(ILoc(df, 0, sim.len1), sim.normalize_method)
SimPattern2 ==
    normalize_pattern(ILoc(df, Len(df) - sim.len2, Len(df)), sim.normalize_method)

\* C25: on two normalized patterns of equal shape, constant ones included,
\* calculate_similarity on the accelerated path returns what the CPU path
\* returns, for every documented method.
C25_BackendEquivalence ==
    ( /\ sim # NoSim
      /\ sim.use_gpu
      /\ sim.method \in ValidMethods
      /\ sim.normalize_method \in ValidMatchNormalizeMethods
      /\ sim.len1 = sim.len2
      /\ sim.len1 >= 1 )
    => /\ sim.status = calculate_similarity(SimPattern1, SimPattern2, sim.method).status
       /\ sim.value = calculate_similarity(SimPattern1, SimPattern2, sim.method).value

\* An exception was caught by the handler of lines 260-262 while the symbol
\* at position k was processed: its search raised, or the search returned
\* and the progress callback raised.
CaughtAt(k) ==
    /\ ~TooShort(analysis.symbols_data[k], analysis.cfg)
    /\ \/ FindForSymbol(analysis.symbols_data[k], k, analysis.cfg).status # "ok"
       \/ analysis.callback = "raises"

\* C26: a symbol during whose processing an exception was caught has no
\* row in the frame analyze_all_symbols returns.
C26_CaughtErrorsExclude ==
    (analysis # NoAnalysis /\ analysis.status = "done") =>
        \A k \in 1..Len(analysis.symbols_data) :
            CaughtAt(k) =>
                \A j \in 1..Len(analysis.returned) : analysis.returned[j].symbol # k

\* C27: a frame StockDataLoader._create_dataframe returns has strictly
\* increasing timestamps, and on every bar open, high, low, close and
\* volume are numbers, the volume is not negative and high >= low.
C27_LoadedSeriesValid ==
    (loaded # NoLoad /\ loaded.status = "ok") =>
        /\ \A j, k \in 1..Len(loaded.df) : j < k => loaded.df[j].date < loaded.df[k].date
        /\ \A k \in 1..Len(loaded.df) :
               /\ \A f \in Fields : loaded.df[k][f] # NaN
               /\ loaded.df[k].volume # NaN
               /\ loaded.df[k].volume >= 0
               /\ loaded.df[k].high >= loaded.df[k].low

\* C28: utils.config.get_config keeps one Config for the process: only one
\* instance is ever constructed, and every call that returns hands out that
\* first instance, so that what Config.set changed on it stays visible.
C28_OneProcessWideConfig ==
    /\ Len(configs) <= 1
    /\ got.status = "ok" => got.config = 1

\* Line 106: Config.get(key) of the Config constructed last.
SettingsGet(key) == settings.config[key]

\* The variable of the environment a key is read from, where there is one.
EnvOf(key) == CHOOSE name \in EnvNames : EnvKey(name) = key
HasEnv(key) == \E name \in EnvNames : EnvKey(name) = key

\* The value the file or, failing that, DEFAULT_CONFIG gives a key.
FileOrDefault(key) ==
    IF FileExists(settings.config_file) /\ key \in DOMAIN settings.file_config
    THEN settings.file_config[key]
    ELSE DEFAULT_CONFIG[key]

\* C29 as stated: for every key, a variable that is in the environment
\* gives the value get() returns, otherwise the file where it exists and
\* has the key, otherwise DEFAULT_CONFIG; DEFAULT_CONFIG stays as written.
C29_EnvFileDefault ==
    /\ default_config = DEFAULT_CONFIG
    /\ settings.status = "ok" =>
          \A key \in ConfigKeys :
              SettingsGet(key) =
                  IF HasEnv(key) /\ environ[EnvOf(key)] # Unset
                  THEN environ[EnvOf(key)]
                  ELSE FileOrDefault(key)

\* C29: for every key, a variable that is in the environment with a value
\* other than the empty string gives the value get() returns, otherwise the
\* file where it exists and has the key, otherwise DEFAULT_CONFIG;
\* DEFAULT_CONFIG stays as written.
C29_NonEmptyEnvFileDefault ==
    /\ default_config = DEFAULT_CONFIG
    /\ settings.status = "ok" =>
          \A key \in ConfigKeys :
              SettingsGet(key) =
                  IF HasEnv(key) /\ Truthy(environ[EnvOf(key)])
                  THEN environ[EnvOf(key)]
                  ELSE FileOrDefault(key)

\* A Config whose file has a key that the environment has as well, next to
\* a key only the file has and a key neither has.
C29_Witness ==
    /\ settings.status = "ok"
    /\ FileExists(settings.config_file)
    /\ \E key \in DOMAIN settings.file_config :
          HasEnv(key) /\ Truthy(environ[EnvOf(key)])
    /\ "data_dir" \in DOMAIN settings.file_config
    /\ \E key \in ConfigKeys \ DOMAIN settings.file_config :
          HasEnv(key) /\ environ[EnvOf(key)] = Unset

\* The requests of the last call, by method, and the answer to its first
\* PUT.
RequestsBy(method) ==
    {i \in 1..Len(upload.requests) : upload.requests[i].method = method}
FirstStatus == upload.requests[1].status

\* C30: upload_report never raises.  Without a token it returns None and
\* issues no request; where the PUT is answered with 422 it does one GET
\* and at most one further PUT and returns what the update gives; after
\* any other failure of the PUT, one that raises before there is a response
\* included, it returns None.
C30_UploadNeverRaises ==
    upload.status # "none" =>
        /\ upload.status = "returned"
        /\ upload.token = "" =>
              upload.result = "None" /\ upload.requests = <<>>
        /\ upload.token # "" =>
              /\ Len(upload.requests) >= 1
              /\ FirstStatus = 422 =>
                    /\ Cardinality(RequestsBy("GET")) = 1
                    /\ Cardinality(RequestsBy("PUT")) <= 2
              /\ FirstStatus \notin {201, 422} =>
                    upload.result = "None" /\ Len(upload.requests) = 1

=============================================================================
